---- MODULE Spec2Model ----
(***************************************************************************)
(* Bank-statement import and categorization pipeline of the scrooge        *)
(* backend: the pattern store and learn_pattern, the layered categorize,   *)
(* categorize_transactions, find_duplicates and confirm_import.            *)
(*                                                                         *)
(* Text is modelled as a tuple of one-character strings, so that lower(),  *)
(* strip(), the whitespace collapse, the fuzzy ratios, the regex search    *)
(* and the SQL LIKE match are computed character by character.  Category   *)
(* labels are plain strings.  Scores are kept in hundredths (0.85 is 85).  *)
(* Cyrillic labels are written transliterated: "Drugoe" is the Russian     *)
(* default label, "Elektronika", "Kafe i restorany", "Produkty" the        *)
(* Russian category names of the merchant table and of the MCC table.      *)
(***************************************************************************)
EXTENDS Integers, Sequences, FiniteSets, Bags, TLC

VARIABLES
    patterns,       \* table transaction_patterns, a bag of rows
    transactions,   \* table transactions, in insertion (created_at) order
    categories,     \* table categories, in insertion order
    last,           \* the last completed call and what it returned
    req,            \* SpecRace: the two concurrent learn_pattern requests
    confirm,        \* SpecConfirm: the running confirm_import request
    parsed,         \* SpecImport: the parsed transactions of a preview
    dialect         \* SpecDup: the SQL dialect behind the session

vars == <<patterns, transactions, categories, last, req, confirm, parsed, dialect>>

None == "None"       \* None of an optional label or code
NoText == <<None>>   \* None of an optional text
NoId == 0            \* None of an optional row id (ids start at 1)
NoDate == 0          \* None of an optional timestamp (days start at 1)

----------------------------------------------------------------------------
(* Bounds of the model                                                     *)

MaxUsage == 4         \* highest usage_count a row is driven to
MaxTx == 1            \* rows in transactions (Spec)

Users == {1, 2}

----------------------------------------------------------------------------
(* Text                                                                    *)

Lower(c) ==
    CASE c = "W" -> "w" [] c = "B" -> "b" [] c = "K" -> "k"
      [] c = "X" -> "x" [] c = "Y" -> "y" [] c = "Z" -> "z"
      [] OTHER -> c

LowerStr(s) == [i \in 1..Len(s) |-> Lower(s[i])]

IsSpace(c) == c \in {" ", "\t"}

RECURSIVE LStrip(_)
LStrip(s) == IF s # <<>> /\ IsSpace(Head(s)) THEN LStrip(Tail(s)) ELSE s

RECURSIVE RStrip(_)
RStrip(s) ==
    IF s # <<>> /\ IsSpace(s[Len(s)]) THEN RStrip(SubSeq(s, 1, Len(s) - 1)) ELSE s

Strip(s) == RStrip(LStrip(s))

\* re.sub(r'\s+', ' ', text): every maximal run of whitespace becomes one space
RECURSIVE CollapseSpaces(_)
CollapseSpaces(s) ==
    IF s = <<>> THEN <<>>
    ELSE IF IsSpace(Head(s))
         THEN <<" ">> \o CollapseSpaces(LStrip(s))
         ELSE <<Head(s)>> \o CollapseSpaces(Tail(s))

NormalizeText(s) == CollapseSpaces(Strip(LowerStr(s)))

IsBlank(s) == s = <<>> \/ Strip(s) = <<>>

\* a is a contiguous substring of s
Contains(s, a) ==
    \E i \in 0..(Len(s) - Len(a)) : SubSeq(s, i + 1, i + Len(a)) = a

Max(a, b) == IF a >= b THEN a ELSE b
Min(a, b) == IF a <= b THEN a ELSE b

----------------------------------------------------------------------------
(* thefuzz: fuzz.ratio and fuzz.partial_ratio                              *)

RECURSIVE LCS(_, _)
LCS(a, b) ==
    IF a = <<>> \/ b = <<>> THEN 0
    ELSE IF Head(a) = Head(b) THEN 1 + LCS(Tail(a), Tail(b))
    ELSE Max(LCS(Tail(a), b), LCS(a, Tail(b)))

\* int(round(x)) for x = n / d, Python's round-half-to-even
RoundDiv(n, d) ==
    LET q == n \div d
        r == n % d
    IN  IF 2 * r < d THEN q
        ELSE IF 2 * r > d THEN q + 1
        ELSE IF q % 2 = 0 THEN q ELSE q + 1

\* fuzz.ratio: 100 * (1 - indel_distance / (len1 + len2)), rounded
Ratio(a, b) ==
    IF Len(a) + Len(b) = 0 THEN 100
    ELSE RoundDiv(200 * LCS(a, b), Len(a) + Len(b))

\* the windows of the longer string the shorter one is aligned with
Windows(short, long) ==
    {SubSeq(long, 1, i) : i \in 1..(Len(short) - 1)}
        \cup {SubSeq(long, i + 1, i + Len(short)) : i \in 0..(Len(long) - Len(short))}
        \cup {SubSeq(long, i + 1, Len(long)) : i \in (Len(long) - Len(short))..(Len(long) - 1)}

SetMax(S) == CHOOSE m \in S : \A x \in S : x <= m

PartialRatioImpl(short, long) ==
    IF short = <<>> THEN 0
    ELSE SetMax({Ratio(short, w) : w \in Windows(short, long)})

PartialRatio(a, b) ==
    IF a = <<>> /\ b = <<>> THEN 100
    ELSE IF Len(a) < Len(b) THEN PartialRatioImpl(a, b)
    ELSE IF Len(b) < Len(a) THEN PartialRatioImpl(b, a)
    ELSE Max(PartialRatioImpl(a, b), PartialRatioImpl(b, a))

----------------------------------------------------------------------------
(* Inputs of the model                                                     *)

D_xy    == <<"x", " ", "y">>
D_XY    == <<"X", " ", "\t", "Y", " ">>   \* normalizes to "x y"
D_xyz   == <<"x", " ", "y", "z">>         \* ratio 86 with "x y"
D_wbk   == <<"w", "b", "k">>              \* matches the rules "bk" and "wb"
D_blank == <<" ">>                        \* whitespace only
D_empty == <<>>                           \* the empty description

Descriptions == {D_xy, D_XY, D_xyz, D_wbk, D_blank, D_empty}

MccInputs == {None, "5411", "0000"}
Languages == {"en", "ru"}

----------------------------------------------------------------------------
(* Reference data                                                          *)

\* rows of mcc_codes seeded by the migration (code, suggested categories)
MccCodes ==
    { [code |-> "5411", suggested_category_en |-> "Groceries",
       suggested_category_ru |-> "Produkty"],
      [code |-> "5812", suggested_category_en |-> "Restaurants",
       suggested_category_ru |-> "Kafe i restorany"] }

\* MERCHANT_PATTERNS in source order, restricted to the rules that have an
\* alternative over the letters of Descriptions (w b k x y z, blank, tab);
\* alts are the alternatives of the rule that such a text can contain.
MERCHANT_PATTERNS ==
    << [alts |-> {<<"b", "k">>}, categories |-> <<"Restaurants", "Kafe i restorany">>],
       [alts |-> {<<"w", "b">>}, categories |-> <<"Electronics", "Elektronika">>] >>

HistoryLimit == 100

----------------------------------------------------------------------------
(* Categorization engine                                                   *)

NoSuggestion == [found |-> FALSE, category |-> "", score |-> 0, source |-> "none"]

Suggestion(c, sc, src) == [found |-> TRUE, category |-> c, score |-> sc, source |-> src]

\* the rows of the bag pats that satisfy Test
RowsWhere(pats, Test(_)) ==
    LET keep == {r \in DOMAIN pats : Test(r)}
    IN  [r \in keep |-> pats[r]]

RowCount(pats) == BagCardinality(pats)

RemoveRow(pats, r) == pats (-) SetToBag({r})
AddRow(pats, r) == pats (+) SetToBag({r})

\* every listing of the bag b by descending usage_count
RECURSIVE OrdersOf(_)
OrdersOf(b) ==
    IF DOMAIN b = {} THEN {<<>>}
    ELSE LET top == {r \in DOMAIN b : \A q \in DOMAIN b : r.usage_count >= q.usage_count}
         IN  UNION { {<<r>> \o o : o \in OrdersOf(RemoveRow(b, r))} : r \in top }

\* faulty variant: the rows of every user are listed
UserPatternOrdersAllUsers(pats, user_id) == OrdersOf(pats)

\* _get_user_patterns: the user's rows ORDER BY usage_count DESC; the order of
\* rows with equal usage_count is the database's choice
UserPatternOrders(pats, user_id) ==
    OrdersOf(RowsWhere(pats, LAMBDA r : r.user_id = user_id))

GetMccMapping(mcc_code, language) ==
    IF mcc_code = None \/ mcc_code = "" THEN None
    ELSE IF \E m \in MccCodes : m.code = mcc_code
    THEN LET mcc == CHOOSE m \in MccCodes : m.code = mcc_code
         IN  IF language = "ru"
             THEN IF mcc.suggested_category_ru \notin {None, ""}
                  THEN mcc.suggested_category_ru ELSE mcc.suggested_category_en
             ELSE IF mcc.suggested_category_en \notin {None, ""}
                  THEN mcc.suggested_category_en ELSE mcc.suggested_category_ru
    ELSE None

\* faulty variant: an exact match scores 0.95 whatever the usage_count
PatternTestFlatExact(pattern, raw_description) ==
    LET normalized == NormalizeText(raw_description)
        similarity == Ratio(LowerStr(pattern.raw_description), LowerStr(raw_description))
        partial == PartialRatio(pattern.normalized_pattern, normalized)
    IN  IF pattern.normalized_pattern = normalized
        THEN Suggestion(pattern.category_name, 95, "pattern")
        ELSE IF similarity >= 85
        THEN Suggestion(pattern.category_name, similarity, "fuzzy")
        ELSE IF partial >= 90
        THEN Suggestion(pattern.category_name, partial, "fuzzy")
        ELSE NoSuggestion

\* faulty variant: the exact match starts from 0.85 instead of 0.95
PatternTestLowExact(pattern, raw_description) ==
    LET normalized == NormalizeText(raw_description)
        similarity == Ratio(LowerStr(pattern.raw_description), LowerStr(raw_description))
        partial == PartialRatio(pattern.normalized_pattern, normalized)
    IN  IF pattern.normalized_pattern = normalized
        THEN Suggestion(pattern.category_name,
                        Min(85 + pattern.usage_count, 99), "pattern")
        ELSE IF similarity >= 85
        THEN Suggestion(pattern.category_name, similarity, "fuzzy")
        ELSE IF partial >= 90
        THEN Suggestion(pattern.category_name, partial, "fuzzy")
        ELSE NoSuggestion

\* the three tests _match_user_pattern applies to one pattern, in order
PatternTest(pattern, raw_description) ==
    LET normalized == NormalizeText(raw_description)
        similarity == Ratio(LowerStr(pattern.raw_description), LowerStr(raw_description))
        partial == PartialRatio(pattern.normalized_pattern, normalized)
    IN  IF pattern.normalized_pattern = normalized
        THEN Suggestion(pattern.category_name,
                        Min(95 + pattern.usage_count, 99), "pattern")
        ELSE IF similarity >= 85
        THEN Suggestion(pattern.category_name, similarity, "fuzzy")
        ELSE IF partial >= 90
        THEN Suggestion(pattern.category_name, partial, "fuzzy")
        ELSE NoSuggestion

\* faulty variant: a pattern that matches exactly is preferred to the first
\* pattern that passes a test
MatchUserPatternBest(rows, raw_description) ==
    LET exact == {i \in 1..Len(rows) :
                     rows[i].normalized_pattern = NormalizeText(raw_description)}
        passing == {i \in 1..Len(rows) : PatternTest(rows[i], raw_description).found}
    IN  IF exact # {}
        THEN PatternTest(rows[CHOOSE i \in exact : \A j \in exact : i <= j], raw_description)
        ELSE IF passing # {}
        THEN PatternTest(rows[CHOOSE i \in passing : \A j \in passing : i <= j],
                         raw_description)
        ELSE NoSuggestion

\* _match_user_pattern over the rows _get_user_patterns returned
RECURSIVE MatchUserPattern(_, _)
MatchUserPattern(rows, raw_description) ==
    IF rows = <<>> THEN NoSuggestion
    ELSE LET s == PatternTest(Head(rows), raw_description)
         IN  IF s.found THEN s ELSE MatchUserPattern(Tail(rows), raw_description)

RECURSIVE FirstRule(_, _, _)
FirstRule(rules, normalized, language) ==
    IF rules = <<>> THEN NoSuggestion
    ELSE IF \E a \in Head(rules).alts : Contains(normalized, a)
    THEN LET cats == Head(rules).categories
         IN  Suggestion(IF Len(cats) = 3 THEN cats[1]
                        ELSE IF language = "en" THEN cats[1] ELSE cats[2],
                        85, "regex")
    ELSE FirstRule(Tail(rules), normalized, language)

MatchRegexPatterns(raw_description, language) ==
    FirstRule(MERCHANT_PATTERNS, LowerStr(raw_description), language)

RECURSIVE Reverse(_)
Reverse(s) == IF s = <<>> THEN <<>> ELSE Reverse(Tail(s)) \o <<Head(s)>>

RECURSIVE BestMatch(_, _, _)
BestMatch(rows, raw_description, best) ==
    IF rows = <<>> THEN best
    ELSE LET tx == Head(rows)
             similarity == Ratio(LowerStr(tx.raw_description), LowerStr(raw_description))
         IN  IF tx.raw_description \in {NoText, <<>>}
             THEN BestMatch(Tail(rows), raw_description, best)
             ELSE IF similarity > best.score /\ similarity >= 80
             THEN BestMatch(Tail(rows), raw_description,
                            Suggestion(tx.category_name, similarity, "history"))
             ELSE BestMatch(Tail(rows), raw_description, best)

MatchTransactionHistory(txs, raw_description, user_id) ==
    LET mine == SelectSeq(Reverse(txs),
                          LAMBDA t : t.user_id = user_id /\ t.raw_description # NoText)
        recent == SubSeq(mine, 1, Min(Len(mine), HistoryLimit))
    IN  BestMatch(recent, raw_description, NoSuggestion)

DefaultCategory(language) == IF language = "en" THEN "Other" ELSE "Drugoe"

Result(c, conf, sc) == [category |-> c, confidence |-> conf, score |-> sc]

\* faulty variant: the MCC lookup runs before the user patterns
CategorizeMccFirst(suggestion, txs, user_id, raw_description, mcc_code, language) ==
    LET mcc_category == GetMccMapping(mcc_code, language)
        regex_match == MatchRegexPatterns(raw_description, language)
        history_match == MatchTransactionHistory(txs, raw_description, user_id)
    IN  IF IsBlank(raw_description)
        THEN Result(DefaultCategory(language), "low", 0)
        ELSE IF mcc_code \notin {None, ""} /\ mcc_category \notin {None, ""}
        THEN Result(mcc_category, "high", 85)
        ELSE IF suggestion.found /\ suggestion.score >= 90
        THEN Result(suggestion.category, "high", suggestion.score)
        ELSE IF regex_match.found
        THEN Result(regex_match.category, "medium", regex_match.score)
        ELSE IF history_match.found /\ history_match.score >= 80
        THEN Result(history_match.category, "medium", history_match.score)
        ELSE IF suggestion.found /\ suggestion.score >= 70
        THEN Result(suggestion.category, "medium", suggestion.score)
        ELSE Result(DefaultCategory(language), "low", 0)

\* faulty variant: a blank description goes through the layers like any other
CategorizeBlankThroughLayers(suggestion, txs, user_id, raw_description, mcc_code, language) ==
    LET mcc_category == GetMccMapping(mcc_code, language)
        regex_match == MatchRegexPatterns(raw_description, language)
        history_match == MatchTransactionHistory(txs, raw_description, user_id)
    IN  IF suggestion.found /\ suggestion.score >= 90
        THEN Result(suggestion.category, "high", suggestion.score)
        ELSE IF mcc_code \notin {None, ""} /\ mcc_category \notin {None, ""}
        THEN Result(mcc_category, "high", 85)
        ELSE IF regex_match.found
        THEN Result(regex_match.category, "medium", regex_match.score)
        ELSE IF history_match.found /\ history_match.score >= 80
        THEN Result(history_match.category, "medium", history_match.score)
        ELSE IF suggestion.found /\ suggestion.score >= 70
        THEN Result(suggestion.category, "medium", suggestion.score)
        ELSE Result(DefaultCategory(language), "low", 0)

\* faulty variant: the low-confidence pattern fallback runs before the history match
CategorizeFallbackFirst(suggestion, txs, user_id, raw_description, mcc_code, language) ==
    LET mcc_category == GetMccMapping(mcc_code, language)
        regex_match == MatchRegexPatterns(raw_description, language)
        history_match == MatchTransactionHistory(txs, raw_description, user_id)
    IN  IF IsBlank(raw_description)
        THEN Result(DefaultCategory(language), "low", 0)
        ELSE IF suggestion.found /\ suggestion.score >= 90
        THEN Result(suggestion.category, "high", suggestion.score)
        ELSE IF mcc_code \notin {None, ""} /\ mcc_category \notin {None, ""}
        THEN Result(mcc_category, "high", 85)
        ELSE IF regex_match.found
        THEN Result(regex_match.category, "medium", regex_match.score)
        ELSE IF suggestion.found /\ suggestion.score >= 70
        THEN Result(suggestion.category, "medium", suggestion.score)
        ELSE IF history_match.found /\ history_match.score >= 80
        THEN Result(history_match.category, "medium", history_match.score)
        ELSE Result(DefaultCategory(language), "low", 0)

\* categorize; suggestion is what _match_user_pattern returned (step 1)
CategorizeFrom(suggestion, txs, user_id, raw_description, mcc_code, language) ==
    LET mcc_category == GetMccMapping(mcc_code, language)
        regex_match == MatchRegexPatterns(raw_description, language)
        history_match == MatchTransactionHistory(txs, raw_description, user_id)
    IN  IF IsBlank(raw_description)
        THEN Result(DefaultCategory(language), "low", 0)
        ELSE IF suggestion.found /\ suggestion.score >= 90
        THEN Result(suggestion.category, "high", suggestion.score)
        ELSE IF mcc_code \notin {None, ""} /\ mcc_category \notin {None, ""}
        THEN Result(mcc_category, "high", 85)
        ELSE IF regex_match.found
        THEN Result(regex_match.category, "medium", regex_match.score)
        ELSE IF history_match.found /\ history_match.score >= 80
        THEN Result(history_match.category, "medium", history_match.score)
        ELSE IF suggestion.found /\ suggestion.score >= 70
        THEN Result(suggestion.category, "medium", suggestion.score)
        ELSE Result(DefaultCategory(language), "low", 0)

\* categorize; rows is what _get_user_patterns returned for the user
Categorize(rows, txs, user_id, raw_description, mcc_code, language) ==
    CategorizeFrom(MatchUserPattern(rows, raw_description),
                   txs, user_id, raw_description, mcc_code, language)

----------------------------------------------------------------------------
(* Pattern learning                                                        *)

ExistingPatterns(pats, user_id, normalized) ==
    RowsWhere(pats, LAMBDA r : r.user_id = user_id /\ r.normalized_pattern = normalized)

NewPattern(user_id, raw_description, category_name, category_id, mcc_code) ==
    [user_id |-> user_id,
     raw_description |-> raw_description,
     normalized_pattern |-> NormalizeText(raw_description),
     category_name |-> category_name,
     category_id |-> category_id,
     mcc_code |-> mcc_code,
     type |-> "expense",
     usage_count |-> 1]

UpdatedPattern(existing, category_name, category_id) ==
    [existing EXCEPT !.usage_count = @ + 1,
                     !.category_name = category_name,
                     !.category_id = IF category_id # NoId THEN category_id ELSE @]

\* faulty variant: the row found by the select is ignored and a row is inserted
LearnWriteInsertOnly(pats, found, user_id, raw_description, category_name, category_id, mcc_code) ==
    LET pattern == NewPattern(user_id, raw_description,
                              category_name, category_id, mcc_code)
    IN  [patterns |-> AddRow(pats, pattern), row |-> pattern]

\* the write learn_pattern commits after its select returned `found`
LearnWrite(pats, found, user_id, raw_description, category_name, category_id, mcc_code) ==
    IF DOMAIN found # {}
    THEN LET existing == CHOOSE r \in DOMAIN found : TRUE
             \* the UPDATE goes to the row read, whatever it holds by now
             stored == IF existing \in DOMAIN pats THEN existing
                       ELSE CHOOSE q \in DOMAIN ExistingPatterns(pats,
                                existing.user_id, existing.normalized_pattern) : TRUE
             updated == UpdatedPattern(existing, category_name, category_id)
         IN  [patterns |-> AddRow(RemoveRow(pats, stored), updated), row |-> updated]
    ELSE LET pattern == NewPattern(user_id, raw_description,
                                   category_name, category_id, mcc_code)
         IN  [patterns |-> AddRow(pats, pattern), row |-> pattern]

\* learn_pattern run to completion on the table pats: whether
\* scalar_one_or_none raised, the table afterwards and the row returned
LearnPatternOn(pats, user_id, raw_description, category_name, category_id, mcc_code) ==
    LET found == ExistingPatterns(pats, user_id, NormalizeText(raw_description))
    IN  IF RowCount(found) > 1
        THEN [raised |-> TRUE, patterns |-> pats, row |-> NoText]
        ELSE LET w == LearnWrite(pats, found, user_id, raw_description,
                                 category_name, category_id, mcc_code)
             IN  [raised |-> FALSE, patterns |-> w.patterns, row |-> w.row]

\* the usage_count stored for a key, 0 when the key has no row
UsageOf(pats, user_id, normalized) ==
    LET found == ExistingPatterns(pats, user_id, normalized)
    IN  IF DOMAIN found = {} THEN 0
        ELSE (CHOOSE r \in DOMAIN found : TRUE).usage_count

----------------------------------------------------------------------------
(* Category store                                                          *)

\* str.lower() and str.strip() on the category names of the model
NameLower(n) ==
    CASE n = "Food" -> "food" [] n = "Food " -> "food " [] n = "FOOD" -> "food"
      [] n = "Fun" -> "fun" [] n = "Other" -> "other" [] n = "Bills" -> "bills"
      [] OTHER -> n

NameStrip(n) ==
    CASE n = "Food " -> "Food" [] n = "food " -> "food" [] n = "  " -> "" [] OTHER -> n

\* get_by_name: the rows of the user whose lower(name) is lower(name)
GetByName(cats, name, user_id) ==
    {i \in 1..Len(cats) :
        cats[i].user_id = user_id /\ NameLower(cats[i].name) = NameLower(name)}

\* uq_user_category_name
CategoryNameTaken(cats, name, user_id) ==
    \E i \in 1..Len(cats) : cats[i].user_id = user_id /\ cats[i].name = name

\* get_or_create on the table cats: the table afterwards, the id returned,
\* whether it raised and whether it committed the session
GetOrCreateOn(cats, name, user_id) ==
    LET found == GetByName(cats, name, user_id)
    IN  IF Cardinality(found) > 1
        THEN [raised |-> TRUE, committed |-> FALSE, categories |-> cats, id |-> NoId]
        ELSE IF found # {}
        THEN [raised |-> FALSE, committed |-> FALSE, categories |-> cats,
              id |-> CHOOSE k \in found : TRUE]
        ELSE IF CategoryNameTaken(cats, NameStrip(name), user_id)
        THEN [raised |-> TRUE, committed |-> FALSE, categories |-> cats, id |-> NoId]
        ELSE [raised |-> FALSE, committed |-> TRUE,
              categories |-> Append(cats, [user_id |-> user_id, name |-> NameStrip(name)]),
              id |-> Len(cats) + 1]

----------------------------------------------------------------------------
(* Transaction store                                                       *)

DescriptionLimit == 100

\* the Transaction confirm_import builds from one ImportTransaction
ImportedTransaction(user_id, tx_data, category_id, category_name, now) ==
    [user_id |-> user_id,
     type |-> tx_data.type,
     amount |-> tx_data.amount,
     category_id |-> category_id,
     category_name |-> category_name,
     description |-> IF tx_data.raw_description = <<>> THEN NoText
                     ELSE SubSeq(tx_data.raw_description, 1,
                                 Min(Len(tx_data.raw_description), DescriptionLimit)),
     raw_description |-> tx_data.raw_description,
     transaction_date |-> IF tx_data.transaction_date # NoDate
                          THEN tx_data.transaction_date ELSE now,
     source |-> "import_csv"]

\* TransactionType(value) raises ValueError for any other value
ValidType(t) == t \in {"income", "expense"}

----------------------------------------------------------------------------
(* Spec: the pattern store, the history and categorize, one call at a time *)

Idle == [op |-> "none"]

InitStores ==
    /\ patterns = EmptyBag
    /\ transactions = <<>>
    /\ categories = <<>>
    /\ last = Idle

InitOthers ==
    /\ req = <<>>
    /\ confirm = [pc |-> "idle"]
    /\ parsed = <<>>
    /\ dialect = "postgresql"

Init == InitStores /\ InitOthers

\* CategorizationService.learn_pattern
LearnPattern(user_id, raw_description, category_name, category_id) ==
    LET normalized == NormalizeText(raw_description)
        before == UsageOf(patterns, user_id, normalized)
        r == LearnPatternOn(patterns, user_id, raw_description,
                            category_name, category_id, None)
    IN  /\ last = Idle
        /\ before < MaxUsage
        /\ patterns' = r.patterns
        /\ last' = [op |-> "learn_pattern", user_id |-> user_id,
                    raw_description |-> raw_description,
                    category_name |-> category_name, category_id |-> category_id,
                    raised |-> r.raised, row |-> r.row,
                    usage_before |-> before, rows_before |-> RowCount(patterns)]
        /\ UNCHANGED <<transactions, categories, req, confirm, parsed, dialect>>

\* faulty variant: a match is counted on the pattern's row
PatternsAfterMatchCounted(pats, suggestion) ==
    IF suggestion.found /\ \E r \in DOMAIN pats : r.category_name = suggestion.category
    THEN LET r == CHOOSE q \in DOMAIN pats : q.category_name = suggestion.category
         IN  AddRow(RemoveRow(pats, r), [r EXCEPT !.usage_count = @ + 1])
    ELSE pats

\* the pattern table after _match_user_pattern: the rows are read, none is
\* written
PatternsAfterMatch(pats, suggestion) == pats

\* CategorizationService.categorize
CategorizeCall(user_id, raw_description, mcc_code, language) ==
    \E rows \in UserPatternOrders(patterns, user_id) :
        /\ last = Idle
        /\ last' = [op |-> "categorize", user_id |-> user_id,
                    raw_description |-> raw_description,
                    mcc_code |-> mcc_code, language |-> language,
                    suggestion |-> MatchUserPattern(rows, raw_description),
                    result |-> Categorize(rows, transactions, user_id,
                                          raw_description, mcc_code, language)]
        /\ patterns' = PatternsAfterMatch(patterns, MatchUserPattern(rows, raw_description))
        /\ UNCHANGED <<transactions, categories, req, confirm, parsed, dialect>>

\* confirm_import of a request with one valid transaction tx_data and
\* save_patterns false: the category is resolved, the record is added and
\* committed
ConfirmSingle(user_id, tx_data, category_name) ==
    LET g == GetOrCreateOn(categories, category_name, user_id)
    IN  /\ last = Idle
        /\ Len(transactions) < MaxTx
        /\ ~g.raised
        /\ ValidType(tx_data.type)
        /\ categories' = g.categories
        /\ transactions' = Append(transactions,
               ImportedTransaction(user_id, tx_data, g.id,
                                   g.categories[g.id].name, 2))
        /\ last' = [op |-> "confirm_import", user_id |-> user_id,
                    imported_count |-> 1, saved_patterns |-> 0]
        /\ UNCHANGED <<patterns, req, confirm, parsed, dialect>>

ImportOne(user_id, raw_description, category_name) ==
    ConfirmSingle(user_id,
                  [raw_description |-> raw_description, amount |-> 500,
                   transaction_date |-> 2, type |-> "expense"],
                  category_name)

\* the response is returned; the next call may start
Return ==
    /\ last # Idle
    /\ last' = Idle
    /\ UNCHANGED <<patterns, transactions, categories, req, confirm, parsed, dialect>>

\* the (user, description, category) triples learn_pattern is called with
LearnInputs ==
    { <<1, D_xy, "Food">>, <<1, D_xy, "Fun">>, <<1, D_XY, "Food">>,
      <<1, D_xyz, "Fun">>, <<1, D_blank, "Food">> }

\* the (user, description, category) triples imported into the history
HistoryInputs == { <<1, D_xyz, "Bills">>, <<1, D_xy, "Bills">> }

Next ==
    \/ \E i \in LearnInputs : LearnPattern(i[1], i[2], i[3], NoId)
    \/ \E d \in Descriptions, m \in MccInputs, l \in Languages :
          CategorizeCall(1, d, m, l)
    \/ \E i \in HistoryInputs : ImportOne(i[1], i[2], i[3])
    \/ Return

Spec == Init /\ [][Next]_vars

----------------------------------------------------------------------------
(* SpecLearn: learn_pattern calls of two users, one after another          *)

CategoryIds == {NoId, 1}

LearnWideInputs ==
    ({1} \X {D_xy, D_XY, D_blank} \X {"Food", "Fun"} \X CategoryIds)
        \cup {<<2, D_xy, "Fun", NoId>>}

NextLearn ==
    \/ \E i \in LearnWideInputs : LearnPattern(i[1], i[2], i[3], i[4])
    \/ Return

SpecLearn == Init /\ [][NextLearn]_vars

----------------------------------------------------------------------------
(* Claims about learn_pattern and categorize                               *)

KeyRows(user_id, raw_description) ==
    DOMAIN ExistingPatterns(patterns, user_id, NormalizeText(raw_description))

\* C1: called one after another, learn_pattern keeps at most one row per
\* (user_id, normalized_pattern); the first call for a key inserts a row with
\* usage_count 1, each later call for the key adds exactly 1 to the
\* usage_count of that row and inserts no row.
C1_OneRowPerKey ==
    /\ \A r \in DOMAIN patterns :
          /\ patterns[r] = 1
          /\ \A q \in DOMAIN patterns :
                (q.user_id = r.user_id /\ q.normalized_pattern = r.normalized_pattern)
                    => q = r
    /\ last.op = "learn_pattern" =>
          /\ ~last.raised
          /\ last.row \in KeyRows(last.user_id, last.raw_description)
          /\ last.usage_before = 0 =>
                /\ last.row.usage_count = 1
                /\ RowCount(patterns) = last.rows_before + 1
          /\ last.usage_before > 0 =>
                /\ last.row.usage_count = last.usage_before + 1
                /\ RowCount(patterns) = last.rows_before

\* a key is learned again through a description that differs from the stored one
C1_Witness ==
    /\ last.op = "learn_pattern"
    /\ last.usage_before >= 2
    /\ last.row.raw_description # last.raw_description
    /\ last.row.usage_count = last.usage_before + 1
    /\ RowCount(patterns) >= 2

\* a pattern of the user, other than r and listed no later than r, that passes
\* one of the fuzzy tests for the description
Shadowed(r, user_id, raw_description) ==
    \E q \in DOMAIN patterns :
        /\ q # r
        /\ q.user_id = user_id
        /\ q.usage_count >= r.usage_count
        /\ PatternTest(q, raw_description).found

\* C3 as stated: whatever the store holds, once learn_pattern(user, d, c) has
\* written the row of d, categorize(user, d) returns c, "high", score >= 0.95.
C3_Original ==
    last.op = "categorize" =>
        \A r \in KeyRows(last.user_id, last.raw_description) :
            /\ last.result.category = r.category_name
            /\ last.result.confidence = "high"
            /\ last.result.score >= 95

\* C3 amended: for a description d that is not blank, when no other pattern
\* of the user with usage_count >= that of the row of d passes a fuzzy test
\* for d, categorize(user, d) returns the category learned for d, "high",
\* score >= 0.95.
C3_RoundTrip ==
    last.op = "categorize" =>
        \A r \in KeyRows(last.user_id, last.raw_description) :
            (~IsBlank(last.raw_description)
                /\ ~Shadowed(r, last.user_id, last.raw_description))
            => /\ last.result.category = r.category_name
               /\ last.result.confidence = "high"
               /\ last.result.score >= 95

\* the learned row wins although a less used pattern fuzzy-matches too
C3_Witness ==
    /\ last.op = "categorize"
    /\ ~IsBlank(last.raw_description)
    /\ \E r \in KeyRows(last.user_id, last.raw_description) :
          /\ ~Shadowed(r, last.user_id, last.raw_description)
          /\ \E q \in DOMAIN patterns :
                /\ q # r /\ q.user_id = r.user_id
                /\ q.category_name # r.category_name
                /\ PatternTest(q, last.raw_description).found
          /\ last.result = Result(r.category_name, "high", Min(95 + r.usage_count, 99))

MccMapped(mcc_code, language) == GetMccMapping(mcc_code, language) \notin {None, ""}

\* C7 as stated: a stored pattern whose normalized_pattern equals the
\* normalized description and that scores 0.99, together with a mapped
\* mcc_code, makes categorize return the pattern's category with "high".
C7_Original ==
    last.op = "categorize" =>
        \A r \in KeyRows(last.user_id, last.raw_description) :
            (Min(95 + r.usage_count, 99) = 99 /\ MccMapped(last.mcc_code, last.language))
            => /\ last.result.category = r.category_name
               /\ last.result.confidence = "high"

\* C7 amended: the same, for a description that is not blank and a pattern
\* that no other pattern of the user with usage_count >= its own shadows by
\* passing a fuzzy test for the description.
C7_PatternOverMcc ==
    last.op = "categorize" =>
        \A r \in KeyRows(last.user_id, last.raw_description) :
            (/\ Min(95 + r.usage_count, 99) = 99
             /\ MccMapped(last.mcc_code, last.language)
             /\ ~IsBlank(last.raw_description)
             /\ ~Shadowed(r, last.user_id, last.raw_description))
            => /\ last.result.category = r.category_name
               /\ last.result.confidence = "high"
               /\ last.result.score = 99

C7_Witness ==
    /\ last.op = "categorize"
    /\ MccMapped(last.mcc_code, last.language)
    /\ \E r \in KeyRows(last.user_id, last.raw_description) :
          /\ r.usage_count >= 4
          /\ last.result = Result(r.category_name, "high", 99)
          /\ r.category_name # GetMccMapping(last.mcc_code, last.language)

\* the result the priority chain of the claim gives below step 1
ChainResult(suggestion, txs, user_id, raw_description, mcc_code, language) ==
    LET regex_match == MatchRegexPatterns(raw_description, language)
        history_match == MatchTransactionHistory(txs, raw_description, user_id)
    IN  IF MccMapped(mcc_code, language)
        THEN Result(GetMccMapping(mcc_code, language), "high", 85)
        ELSE IF regex_match.found
        THEN Result(regex_match.category, "medium", 85)
        ELSE IF history_match.found
        THEN Result(history_match.category, "medium", history_match.score)
        ELSE IF suggestion.found /\ suggestion.score >= 70
        THEN Result(suggestion.category, "medium", suggestion.score)
        ELSE Result(DefaultCategory(language), "low", 0)

\* C8 as stated: for a non-empty description for which step 1 yields no
\* suggestion with score >= 0.9, categorize returns the result of the first
\* of MCC, regex, history, low-confidence pattern, default that produces one.
C8_Original ==
    (/\ last.op = "categorize"
     /\ last.raw_description # <<>>
     /\ ~(last.suggestion.found /\ last.suggestion.score >= 90))
    => last.result = ChainResult(last.suggestion, transactions, last.user_id,
                                 last.raw_description, last.mcc_code, last.language)

\* C8 amended: the same for a description that is not blank (neither empty
\* nor whitespace only).
C8_PriorityChain ==
    (/\ last.op = "categorize"
     /\ ~IsBlank(last.raw_description)
     /\ ~(last.suggestion.found /\ last.suggestion.score >= 90))
    => last.result = ChainResult(last.suggestion, transactions, last.user_id,
                                 last.raw_description, last.mcc_code, last.language)

\* the history match is returned although step 1 left a low-confidence suggestion
C8_Witness ==
    /\ last.op = "categorize"
    /\ ~IsBlank(last.raw_description)
    /\ last.suggestion.found /\ last.suggestion.score < 90
    /\ ~MccMapped(last.mcc_code, last.language)
    /\ last.mcc_code # None
    /\ ~MatchRegexPatterns(last.raw_description, last.language).found
    /\ last.result.category = "Bills"
    /\ last.result.category # last.suggestion.category

----------------------------------------------------------------------------
(* SpecRace: two requests run learn_pattern at the same time. Each call is  *)
(* a select of the committed rows of the key followed, after an await, by   *)
(* the insert or update and its commit; the table has no unique constraint  *)
(* on (user_id, normalized_pattern).                                        *)

Requests == {1, 2}

RaceInputs == { <<1, D_xy, "Food">>, <<1, D_XY, "Fun">>, <<1, D_blank, "Food">> }

InitRace ==
    /\ InitStores
    /\ req = [i \in Requests |-> [pc |-> "idle"]]
    /\ confirm = [pc |-> "idle"]
    /\ parsed = <<>>
    /\ dialect = "postgresql"

\* learn_pattern up to the result of its select
RaceSelect(i, user_id, raw_description, category_name) ==
    LET found == ExistingPatterns(patterns, user_id, NormalizeText(raw_description))
    IN  /\ req[i].pc = "idle"
        /\ \A r \in DOMAIN found : r.usage_count < MaxUsage
        /\ req' = [req EXCEPT ![i] =
                      [pc |-> IF RowCount(found) > 1 THEN "raised" ELSE "selected",
                       user_id |-> user_id,
                       raw_description |-> raw_description,
                       category_name |-> category_name,
                       found |-> found]]
        /\ UNCHANGED <<patterns, transactions, categories, last, confirm, parsed, dialect>>

\* learn_pattern from the select to the commit
RaceWrite(i) ==
    /\ req[i].pc = "selected"
    /\ LET w == LearnWrite(patterns, req[i].found, req[i].user_id,
                           req[i].raw_description, req[i].category_name, NoId, None)
       IN  /\ patterns' = w.patterns
           /\ req' = [req EXCEPT ![i] = [pc |-> "done", row |-> w.row]]
    /\ UNCHANGED <<transactions, categories, last, confirm, parsed, dialect>>

\* the request is answered, with the pattern or with the error
RaceReturn(i) ==
    /\ req[i].pc \in {"done", "raised"}
    /\ req' = [req EXCEPT ![i] = [pc |-> "idle"]]
    /\ UNCHANGED <<patterns, transactions, categories, last, confirm, parsed, dialect>>

NextRace ==
    \/ \E i \in Requests : \E a \in RaceInputs : RaceSelect(i, a[1], a[2], a[3])
    \/ \E i \in Requests : RaceWrite(i)
    \/ \E i \in Requests : RaceReturn(i)

SpecRace == InitRace /\ [][NextRace]_vars

\* C2: two learn_pattern calls that run at the same time for the same user
\* and the same normalized description never end with two pattern rows for
\* that (user_id, normalized_pattern) key.
C2_NoDuplicateAfterRace ==
    (\A i \in Requests : req[i].pc \in {"idle", "done"}) =>
        \A r \in DOMAIN patterns :
            /\ patterns[r] = 1
            /\ \A q \in DOMAIN patterns :
                  (q.user_id = r.user_id /\ q.normalized_pattern = r.normalized_pattern)
                      => q = r

----------------------------------------------------------------------------
(* SpecConfirm: POST /import/confirm, one loop iteration per step. The     *)
(* request works in one session: `pending` holds the Transaction objects    *)
(* added and not yet committed. A commit writes them to the store, a        *)
(* rollback (of the session, or of the database transaction when a commit   *)
(* fails) discards them. `outcome` and `learn` note, for each position of   *)
(* the batch, what became of its record and of its learn_pattern call.      *)

MaxBatch == 3

TxData(raw_description, type, suggested_category, confidence) ==
    [raw_description |-> raw_description, amount |-> 500, transaction_date |-> 2,
     mcc_code |-> None, type |-> type,
     suggested_category |-> suggested_category, confidence |-> confidence]

ConfirmInputs ==
    { TxData(D_xy, "expense", "Food", "high"),
      TxData(D_xyz, "transfer", "Food", "high"),
      TxData(D_xy, "expense", "Food ", "medium"),
      TxData(D_wbk, "income", None, "low") }

\* what the database does to the commit inside learn_pattern
CommitFaults == {"none", "error"}

\* two rows of one key, as two racing learn_pattern calls leave them
DuplicatePatterns ==
    LET p == NewPattern(1, D_xy, "Food", NoId, None) IN AddRow(AddRow(EmptyBag, p), p)

\* preview_import accepts .csv and .pdf files
FileTypes == {"csv", "pdf"}

InitConfirm ==
    /\ patterns \in {EmptyBag, DuplicatePatterns}
    /\ transactions = <<>>
    /\ categories \in {<<>>, <<[user_id |-> 1, name |-> "Food"]>>}
    /\ last = Idle
    /\ req = <<>>
    /\ confirm = [pc |-> "idle"]
    /\ parsed = <<>>
    /\ dialect = "postgresql"

Mark(outcome, to) ==
    [k \in 1..Len(outcome) |-> IF outcome[k] = "pending" THEN to ELSE outcome[k]]

\* file_type is the kind of file the batch was previewed from; the request
\* itself carries the transactions and save_patterns only
ConfirmBegin(user_id, save_patterns, file_type) ==
    /\ confirm.pc = "idle"
    /\ Len(transactions) < MaxTx
    /\ confirm' = [pc |-> "loop", user_id |-> user_id, save_patterns |-> save_patterns,
                   pending |-> <<>>, imported_count |-> 0, saved_patterns |-> 0,
                   outcome |-> <<>>, learn |-> <<>>, before |-> Len(transactions),
                   batch |-> <<>>, file_type |-> file_type, patterns_before |-> patterns]
    /\ UNCHANGED <<patterns, transactions, categories, last, req, parsed, dialect>>

\* faulty variant: the confidence of the transaction is not looked at
WantsLearningAnyConfidence(save_patterns, tx_data) ==
    save_patterns

\* the condition under which confirm_import calls learn_pattern
WantsLearning(save_patterns, tx_data) ==
    save_patterns /\ tx_data.confidence \in {"high", "medium"}

\* one iteration of the loop of confirm_import over tx_data
ConfirmStep(tx_data, fault) ==
    LET c == confirm
        name == IF tx_data.suggested_category \in {None, ""}
                THEN "Other" ELSE tx_data.suggested_category
        g == GetOrCreateOn(categories, name, c.user_id)
        \* get_or_create commits when it inserts the category
        txs1 == IF g.committed THEN transactions \o c.pending ELSE transactions
        pending1 == IF g.committed THEN <<>> ELSE c.pending
        outcome1 == IF g.committed THEN Mark(c.outcome, "stored") ELSE c.outcome
        transaction == ImportedTransaction(c.user_id, tx_data, g.id,
                                           g.categories[g.id].name, 3)
        wants == WantsLearning(c.save_patterns, tx_data)
        found == ExistingPatterns(patterns, c.user_id,
                                  NormalizeText(tx_data.raw_description))
        w == LearnWrite(patterns, found, c.user_id, tx_data.raw_description,
                        g.categories[g.id].name, g.id, tx_data.mcc_code)
    IN  /\ c.pc = "loop"
        /\ Len(c.outcome) < MaxBatch
        /\ IF g.raised
           THEN \* except Exception: rollback, continue
                /\ confirm' = [c EXCEPT !.pending = <<>>,
                                        !.outcome = Append(Mark(@, "lost"), "failed"),
                                        !.batch = Append(@, tx_data),
                                        !.learn = Append(@, "none")]
                /\ UNCHANGED <<patterns, transactions, categories>>
           ELSE IF ~ValidType(tx_data.type)
           THEN \* TransactionType(tx_data.type) raises: rollback, continue
                /\ categories' = g.categories
                /\ transactions' = txs1
                /\ confirm' = [c EXCEPT !.pending = <<>>,
                                        !.outcome = Append(Mark(outcome1, "lost"), "failed"),
                                        !.batch = Append(@, tx_data),
                                        !.learn = Append(@, "none")]
                /\ UNCHANGED patterns
           ELSE IF ~wants
           THEN \* db.add(transaction); imported_count += 1
                /\ categories' = g.categories
                /\ transactions' = txs1
                /\ confirm' = [c EXCEPT !.pending = Append(pending1, transaction),
                                        !.imported_count = @ + 1,
                                        !.outcome = Append(outcome1, "pending"),
                                        !.batch = Append(@, tx_data),
                                        !.learn = Append(@, "none")]
                /\ UNCHANGED patterns
           ELSE IF RowCount(found) > 1
           THEN \* scalar_one_or_none raises in learn_pattern; caught, continue
                /\ categories' = g.categories
                /\ transactions' = txs1
                /\ confirm' = [c EXCEPT !.pending = Append(pending1, transaction),
                                        !.imported_count = @ + 1,
                                        !.outcome = Append(outcome1, "pending"),
                                        !.batch = Append(@, tx_data),
                                        !.learn = Append(@, "failed")]
                /\ UNCHANGED patterns
           ELSE IF fault = "error"
           THEN \* the commit of learn_pattern fails: the database transaction,
                \* with every record flushed in it, is rolled back; caught, continue
                /\ categories' = g.categories
                /\ transactions' = txs1
                /\ confirm' = [c EXCEPT !.pending = <<>>,
                                        !.imported_count = @ + 1,
                                        !.outcome = Mark(Append(outcome1, "pending"), "lost"),
                                        !.batch = Append(@, tx_data),
                                        !.learn = Append(@, "failed")]
                /\ UNCHANGED patterns
           ELSE \* learn_pattern commits the pattern and the pending records
                /\ categories' = g.categories
                /\ transactions' = txs1 \o Append(pending1, transaction)
                /\ patterns' = w.patterns
                /\ confirm' = [c EXCEPT !.pending = <<>>,
                                        !.imported_count = @ + 1,
                                        !.saved_patterns = @ + 1,
                                        !.outcome = Mark(Append(outcome1, "pending"), "stored"),
                                        !.batch = Append(@, tx_data),
                                        !.learn = Append(@, "ok")]
        /\ UNCHANGED <<last, req, parsed, dialect>>

\* the loop is over: db.commit() and the response
ConfirmFinish ==
    /\ confirm.pc = "loop"
    /\ transactions' = transactions \o confirm.pending
    /\ confirm' = [confirm EXCEPT !.pc = "done", !.pending = <<>>,
                                  !.outcome = Mark(@, "stored")]
    /\ UNCHANGED <<patterns, categories, last, req, parsed, dialect>>

ConfirmReturn ==
    /\ confirm.pc = "done"
    /\ confirm' = [pc |-> "idle"]
    /\ UNCHANGED <<patterns, transactions, categories, last, req, parsed, dialect>>

NextConfirm ==
    \/ \E s \in BOOLEAN : \E f \in FileTypes : ConfirmBegin(1, s, f)
    \/ \E t \in ConfirmInputs : \E f \in CommitFaults : ConfirmStep(t, f)
    \/ ConfirmFinish
    \/ ConfirmReturn

SpecConfirm == InitConfirm /\ [][NextConfirm]_vars

Positions(c, states) == {k \in 1..Len(c.outcome) : c.outcome[k] \in states}

StoredByRequest == Len(transactions) - confirm.before

\* C4: when persisting transaction k of a confirm_import batch fails, only
\* that attempt is rolled back; every other transaction of the batch, before
\* or after k, is stored.
C4_OnlyFailedAttemptLost ==
    (confirm.pc = "done" /\ \A k \in 1..Len(confirm.learn) : confirm.learn[k] # "failed")
    => /\ Positions(confirm, {"lost"}) = {}
       /\ StoredByRequest = Cardinality(Positions(confirm, {"stored", "lost"}))

\* C5: the imported_count of the confirm_import response equals the number
\* of transaction rows the request actually stored (stated here for the
\* requests in which no learn_pattern call fails).
C5_CountIsStored ==
    (confirm.pc = "done" /\ \A k \in 1..Len(confirm.learn) : confirm.learn[k] # "failed")
    => confirm.imported_count = StoredByRequest

\* C6: a learn_pattern failure for one transaction of the batch prevents
\* neither the record of that transaction nor those of later transactions
\* from being stored.
C6_LearnFailureHarmless ==
    (confirm.pc = "done" /\ Positions(confirm, {"failed"}) = {})
    => \A k \in 1..Len(confirm.learn) :
          confirm.learn[k] = "failed" =>
              /\ \A j \in k..Len(confirm.outcome) : confirm.outcome[j] = "stored"
              /\ StoredByRequest >= Len(confirm.outcome) - k + 1

----------------------------------------------------------------------------
(* SpecImport: the categorization pass of the import preview over the      *)
(* transactions parsed from a file, some of which carry a category hint    *)

MaxParsed == 2

Parsed(raw_description, mcc_code, hint) ==
    [raw_description |-> raw_description, amount |-> 500, transaction_date |-> 2,
     mcc_code |-> mcc_code, type |-> "expense", suggested_category |-> hint,
     confidence |-> "low", confidence_score |-> 0,
     is_duplicate |-> FALSE, duplicate_count |-> 0]

Hints == {None, "", "  ", "Supermarkets"}

ParsedInputs ==
    { Parsed(d, m, h) : d \in {D_xy, D_wbk}, m \in {None, "5411"}, h \in Hints }

ParsedLists ==
    UNION { [1..n -> ParsedInputs] : n \in 1..MaxParsed }

\* faulty variant: a hint from the file is kept even over a high-confidence result
CategorizeOneHintFirst(tx, result) ==
    IF tx.suggested_category \notin {None, ""} /\ NameStrip(tx.suggested_category) # ""
    THEN [tx EXCEPT !.confidence = "medium", !.confidence_score = 75]
    ELSE [tx EXCEPT !.suggested_category = result.category,
                    !.confidence = result.confidence,
                    !.confidence_score = result.score]

\* the body of the loop of categorize_transactions, given the engine's result
CategorizeOne(tx, result) ==
    IF result.confidence = "high"
    THEN [tx EXCEPT !.suggested_category = result.category,
                    !.confidence = result.confidence,
                    !.confidence_score = result.score]
    ELSE IF tx.suggested_category \notin {None, ""} /\ NameStrip(tx.suggested_category) # ""
    THEN [tx EXCEPT !.confidence = "medium", !.confidence_score = 75]
    ELSE [tx EXCEPT !.suggested_category = result.category,
                    !.confidence = result.confidence,
                    !.confidence_score = result.score]

\* a statement file has been parsed
ParseFile(txs) ==
    /\ last = Idle
    /\ parsed = <<>>
    /\ parsed' = txs
    /\ UNCHANGED <<patterns, transactions, categories, last, req, confirm, dialect>>

\* ImportService.categorize_transactions
CategorizeTransactions(user_id, language) ==
    \E rows \in [1..Len(parsed) -> UserPatternOrders(patterns, user_id)] :
        LET results == [i \in 1..Len(parsed) |->
                           Categorize(rows[i], transactions, user_id,
                                      parsed[i].raw_description, parsed[i].mcc_code,
                                      language)]
        IN  /\ last = Idle
            /\ parsed # <<>>
            /\ parsed' = [i \in 1..Len(parsed) |-> CategorizeOne(parsed[i], results[i])]
            /\ last' = [op |-> "categorize_transactions", user_id |-> user_id,
                        before |-> parsed, results |-> results]
            /\ UNCHANGED <<patterns, transactions, categories, req, confirm, dialect>>

\* the preview is returned
PreviewReturn ==
    /\ last.op = "categorize_transactions"
    /\ last' = Idle
    /\ parsed' = <<>>
    /\ UNCHANGED <<patterns, transactions, categories, req, confirm, dialect>>

NextImport ==
    \/ LearnPattern(1, D_xy, "Food", NoId)
    \/ (last.op = "learn_pattern" /\ Return)
    \/ \E txs \in ParsedLists : ParseFile(txs)
    \/ \E l \in Languages : CategorizeTransactions(1, l)
    \/ PreviewReturn

SpecImport == Init /\ [][NextImport]_vars

HasHint(tx) ==
    tx.suggested_category \notin {None, "", "  "}

\* C9: categorize_transactions uses the engine's category, confidence and
\* score when the engine's confidence is "high"; otherwise keeps a non-blank
\* category hint of the file with "medium"/0.75; otherwise uses the engine's
\* result. Afterwards every transaction has a suggested_category.
C9_HintPolicy ==
    last.op = "categorize_transactions" =>
        /\ Len(parsed) = Len(last.before)
        /\ \A i \in 1..Len(parsed) :
              LET tx == parsed[i]
                  was == last.before[i]
                  result == last.results[i]
                  engine == /\ tx.suggested_category = result.category
                            /\ tx.confidence = result.confidence
                            /\ tx.confidence_score = result.score
              IN  /\ result.confidence = "high" => engine
                  /\ (result.confidence # "high" /\ HasHint(was)) =>
                        /\ tx.suggested_category = was.suggested_category
                        /\ tx.confidence = "medium"
                        /\ tx.confidence_score = 75
                  /\ (result.confidence # "high" /\ ~HasHint(was)) => engine
                  /\ tx.suggested_category # None
                  /\ tx.raw_description = was.raw_description

\* one file in which a hint loses to a high-confidence result, a hint is
\* kept over a medium one and a blank hint is replaced
C9_Witness ==
    /\ last.op = "categorize_transactions"
    /\ \E i, j \in 1..Len(parsed) :
          /\ HasHint(last.before[i]) /\ last.results[i].confidence = "high"
          /\ parsed[i].suggested_category = "Food"
          /\ last.before[j].suggested_category = "  "
          /\ last.results[j].confidence = "medium"
          /\ parsed[j].suggested_category = last.results[j].category

----------------------------------------------------------------------------
(* SpecDup: TransactionService.find_duplicates over stored transactions.   *)
(* The query is built with ilike(f"%{description}%") and no ESCAPE clause: *)
(* "%" and "_" of the description are wildcards and, on PostgreSQL, the    *)
(* backslash is the escape character; SQLite has no default escape.        *)

DaysTolerance == 1

Abs(n) == IF n < 0 THEN 0 - n ELSE n

\* s LIKE p
RECURSIVE Like(_, _, _)
Like(p, s, escapes) ==
    IF p = <<>> THEN s = <<>>
    ELSE IF escapes /\ Head(p) = "\\"
    THEN /\ Len(p) > 1 /\ s # <<>>
         /\ s[1] = p[2]
         /\ Like(SubSeq(p, 3, Len(p)), Tail(s), escapes)
    ELSE IF Head(p) = "%"
    THEN Like(Tail(p), s, escapes) \/ (s # <<>> /\ Like(p, Tail(s), escapes))
    ELSE IF Head(p) = "_"
    THEN s # <<>> /\ Like(Tail(p), Tail(s), escapes)
    ELSE s # <<>> /\ s[1] = Head(p) /\ Like(Tail(p), Tail(s), escapes)

\* column.ilike("%" + description + "%"); NULL matches nothing
ILikeContains(column, description, db) ==
    /\ column # NoText
    /\ Like(<<"%">> \o LowerStr(description) \o <<"%">>, LowerStr(column),
            db = "postgresql")

\* faulty variant: descriptions are compared with ILIKE only
FindDuplicatesLikeOnly(txs, db, user_id, description, amount, transaction_date) ==
    {i \in 1..Len(txs) :
        /\ txs[i].user_id = user_id
        /\ txs[i].amount = Abs(amount)
        /\ transaction_date # NoDate =>
              /\ txs[i].transaction_date >= transaction_date - DaysTolerance
              /\ txs[i].transaction_date <= transaction_date + DaysTolerance
        /\ \/ ILikeContains(txs[i].raw_description, description, db)
           \/ ILikeContains(txs[i].description, description, db)}

\* faulty variant: a stored description inside the candidate matches too
FindDuplicatesBothWays(txs, db, user_id, description, amount, transaction_date) ==
    {i \in 1..Len(txs) :
        /\ txs[i].user_id = user_id
        /\ txs[i].amount = Abs(amount)
        /\ transaction_date # NoDate =>
              /\ txs[i].transaction_date >= transaction_date - DaysTolerance
              /\ txs[i].transaction_date <= transaction_date + DaysTolerance
        /\ \/ txs[i].raw_description = description
           \/ txs[i].description = description
           \/ ILikeContains(txs[i].raw_description, description, db)
           \/ ILikeContains(txs[i].description, description, db)
           \/ ILikeContains(description, txs[i].raw_description, db)
           \/ ILikeContains(description, txs[i].description, db)}

\* the positions of the stored transactions find_duplicates returns
FindDuplicates(txs, db, user_id, description, amount, transaction_date) ==
    {i \in 1..Len(txs) :
        /\ txs[i].user_id = user_id
        /\ txs[i].amount = Abs(amount)
        /\ transaction_date # NoDate =>
              /\ txs[i].transaction_date >= transaction_date - DaysTolerance
              /\ txs[i].transaction_date <= transaction_date + DaysTolerance
        /\ \/ txs[i].raw_description = description
           \/ txs[i].description = description
           \/ ILikeContains(txs[i].raw_description, description, db)
           \/ ILikeContains(txs[i].description, description, db)}

S_xy == <<"x", "\\", "y">>
S_wxy == <<"w", "x", "\\", "y">>
S_Xyz == <<"X", "y", "z">>
S_yz == <<"y", "z">>
S_xY == <<"x", "Y">>
S_wXyz == <<"w", "X", "y", "z">>

DupCandidates == {S_xy, S_wxy, S_yz, S_xY, S_wXyz}

InitDup ==
    /\ InitStores
    /\ req = <<>>
    /\ confirm = [pc |-> "idle"]
    /\ parsed = <<>>
    /\ dialect \in {"postgresql", "sqlite"}

StoredInputs ==
    { [raw_description |-> d, amount |-> a, transaction_date |-> t, type |-> "expense"] :
        d \in {S_wxy, S_Xyz}, a \in {500, 1000}, t \in {1, 2, 4} }

FindDuplicatesCall(user_id, description, amount, transaction_date) ==
    /\ last = Idle
    /\ last' = [op |-> "find_duplicates", user_id |-> user_id,
                description |-> description, amount |-> amount,
                transaction_date |-> transaction_date,
                result |-> FindDuplicates(transactions, dialect, user_id,
                                          description, amount, transaction_date)]
    /\ UNCHANGED <<patterns, transactions, categories, req, confirm, parsed, dialect>>

\* TransactionService.create: a transaction entered by hand has a display
\* description and no raw description
CreateManual(user_id, description, amount, transaction_date, category_name) ==
    LET g == GetOrCreateOn(categories, category_name, user_id)
    IN  /\ last = Idle
        /\ Len(transactions) < MaxTx
        /\ ~g.raised
        /\ categories' = g.categories
        /\ transactions' = Append(transactions,
               [user_id |-> user_id, type |-> "expense", amount |-> amount,
                category_id |-> g.id, category_name |-> g.categories[g.id].name,
                description |-> description, raw_description |-> NoText,
                transaction_date |-> transaction_date, source |-> "manual"])
        /\ last' = [op |-> "create", user_id |-> user_id]
        /\ UNCHANGED <<patterns, req, confirm, parsed, dialect>>

\* faulty variant: the flag is set and the count is left at its default
CheckOneFlagOnly(tx, duplicates) ==
    IF duplicates # {}
    THEN [tx EXCEPT !.is_duplicate = TRUE]
    ELSE tx

\* the body of the loop of check_duplicates, given what find_duplicates returned
CheckOne(tx, duplicates) ==
    IF duplicates # {}
    THEN [tx EXCEPT !.is_duplicate = TRUE, !.duplicate_count = Cardinality(duplicates)]
    ELSE tx

ParsedCandidate(raw_description, amount, transaction_date) ==
    [Parsed(raw_description, None, None) EXCEPT !.amount = amount,
                                                !.transaction_date = transaction_date]

CheckInputs ==
    LET singles == { ParsedCandidate(S_yz, 500, 2), ParsedCandidate(S_wxy, 500, NoDate),
                     ParsedCandidate(S_yz, 1000, 3), ParsedCandidate(S_wxy, 1000, 4) }
    IN  UNION { [1..n -> singles] : n \in 1..MaxParsed }

\* ImportService.check_duplicates
CheckDuplicates(txs, user_id) ==
    LET duplicates == [i \in 1..Len(txs) |->
                          FindDuplicates(transactions, dialect, user_id,
                                         txs[i].raw_description, txs[i].amount,
                                         txs[i].transaction_date)]
    IN  /\ last = Idle
        /\ last' = [op |-> "check_duplicates", user_id |-> user_id, before |-> txs,
                    duplicates |-> duplicates,
                    transactions |-> [i \in 1..Len(txs) |-> CheckOne(txs[i], duplicates[i])]]
        /\ UNCHANGED <<patterns, transactions, categories, req, confirm, parsed, dialect>>

NextDup ==
    \/ \E u \in Users : \E t \in StoredInputs : ConfirmSingle(u, t, "Food")
    \/ \E u \in Users : \E d \in DupCandidates : \E a \in {500, 0 - 500, 1000} :
          \E t \in {NoDate, 2, 3} : FindDuplicatesCall(u, d, a, t)
    \/ \E u \in Users : CreateManual(u, S_Xyz, 500, 2, "Food")
    \/ \E txs \in CheckInputs : CheckDuplicates(txs, 1)
    \/ Return

SpecDup == InitDup /\ [][NextDup]_vars

\* C10: find_duplicates returns only transactions of the user whose amount
\* equals |amount| and, when a date is given, whose transaction_date lies
\* within one day of it; and it returns every stored transaction meeting
\* these conditions whose description contains the candidate description.
C10_DuplicatesFound ==
    last.op = "find_duplicates" =>
        LET Meets(tx) ==
                /\ tx.user_id = last.user_id
                /\ tx.amount = Abs(last.amount)
                /\ last.transaction_date # NoDate =>
                      Abs(tx.transaction_date - last.transaction_date) <= 1
        IN  /\ \A i \in last.result : Meets(transactions[i])
            /\ \A i \in 1..Len(transactions) :
                  (Meets(transactions[i])
                      /\ Contains(transactions[i].raw_description, last.description))
                  => i \in last.result

\* the stored transaction agrees with the call on user, amount and date window
MeetsCall(tx) ==
    /\ tx.user_id = last.user_id
    /\ tx.amount = Abs(last.amount)
    /\ last.transaction_date # NoDate =>
          Abs(tx.transaction_date - last.transaction_date) <= DaysTolerance

\* "%", "_" and the backslash have a meaning of their own in a LIKE pattern
PlainText(s) == \A k \in 1..Len(s) : s[k] \notin {"%", "_", "\\"}

\* text a occurs in the column value s, whatever the case; NULL holds nothing
InsideOf(s, a) == s # NoText /\ Contains(LowerStr(s), LowerStr(a))

\* C11 as stated: a stored transaction matching on user, amount and date
\* matches on description when its raw or display description equals the
\* candidate, contains it, or is itself a substring of it (stated here for
\* candidates without LIKE special characters).
C11_Original ==
    (last.op = "find_duplicates" /\ PlainText(last.description)) =>
        \A i \in 1..Len(transactions) :
            LET tx == transactions[i]
            IN  (/\ MeetsCall(tx)
                 /\ \/ tx.raw_description = last.description
                    \/ tx.description = last.description
                    \/ Contains(tx.raw_description, last.description)
                    \/ Contains(tx.description, last.description)
                    \/ (tx.raw_description # NoText
                          /\ Contains(last.description, tx.raw_description))
                    \/ (tx.description # NoText
                          /\ Contains(last.description, tx.description)))
                => i \in last.result

\* C11 amended: for a candidate description without LIKE special characters,
\* a stored transaction matching on user, amount and date is returned exactly
\* when its raw or display description equals the candidate or contains it,
\* letter case ignored; a stored description that is only a part of the
\* candidate does not match.
C11_OneDirection ==
    (last.op = "find_duplicates" /\ PlainText(last.description)) =>
        \A i \in 1..Len(transactions) :
            LET tx == transactions[i]
            IN  i \in last.result <=>
                    /\ MeetsCall(tx)
                    /\ \/ InsideOf(tx.raw_description, last.description)
                       \/ InsideOf(tx.description, last.description)

\* one call returns nothing for a stored description inside the candidate,
\* another returns a row that holds the candidate in another letter case
C11_Witness ==
    /\ last.op = "find_duplicates"
    /\ PlainText(last.description)
    /\ \E i \in 1..Len(transactions) :
          /\ MeetsCall(transactions[i])
          /\ \/ /\ i \in last.result
                /\ ~Contains(transactions[i].description, last.description)
                /\ transactions[i].raw_description = NoText
             \/ /\ i \notin last.result
                /\ Contains(last.description, transactions[i].description)

C13_LastWriteWins ==
    (last.op = "learn_pattern" /\ ~last.raised /\ last.usage_before > 0) =>
        \A r \in KeyRows(last.user_id, last.raw_description) :
            /\ r.category_name = last.category_name
            /\ r.category_id = last.category_id

RECURSIVE SumUsage(_)
SumUsage(pats) ==
    IF DOMAIN pats = {} THEN 0
    ELSE LET r == CHOOSE q \in DOMAIN pats : TRUE
         IN  r.usage_count * pats[r] + SumUsage(RemoveRow(RemoveRow(pats, r), r))

LearnCalls(c, results) == {k \in 1..Len(c.learn) : c.learn[k] \in results}

C15_SourceOfFile ==
    confirm.pc = "done" =>
        \A i \in (confirm.before + 1)..Len(transactions) :
            transactions[i].source = (IF confirm.file_type = "pdf"
                                      THEN "import_pdf" ELSE "import_csv")

----------------------------------------------------------------------------
(* SpecPdf: PDFParser.parse. A PDF is described by what the two extraction *)
(* backends make of it: whether each can open it, the tables pdfplumber    *)
(* finds and the kind of text lines each backend extracts. A line of kind  *)
(* "sber" matches the Sber line regex (and the generic heuristics), one of *)
(* kind "generic" only the generic heuristics, one of kind "other" none.   *)

TextKinds == {"", "sber", "generic", "other"}

Pdfs ==
    [plumber_opens : BOOLEAN, tables : {"none", "tinkoff"}, plumber_text : TextKinds,
     mupdf_opens : BOOLEAN, mupdf_text : TextKinds]

\* which of pdfplumber and PyMuPDF could be imported
Backends == [pdfplumber : BOOLEAN, pymupdf : BOOLEAN]

BankHints == {None, "", "Tinkoff Bank", "SBER", "alfa"}

\* bank_hint.lower() and the two substring tests, on the hints of the model
HintBank(bank_hint) ==
    CASE bank_hint \in {"Tinkoff Bank", "tinkoff"} -> "tinkoff"
      [] bank_hint \in {"SBER", "sber"} -> "sber"
      [] OTHER -> "other"

Raised == [raised |-> TRUE, value |-> <<>>]
Returned(v) == [raised |-> FALSE, value |-> v]

\* extract_text
ExtractText(env, pdf) ==
    IF ~env.pdfplumber /\ ~env.pymupdf THEN Raised
    ELSE IF env.pdfplumber /\ ~pdf.plumber_opens /\ ~env.pymupdf THEN Raised
    ELSE LET text == IF env.pdfplumber /\ pdf.plumber_opens
                     THEN pdf.plumber_text ELSE ""
         IN  IF text = "" /\ env.pymupdf
             THEN IF pdf.mupdf_opens THEN Returned(pdf.mupdf_text) ELSE Raised
             ELSE Returned(text)

\* extract_tables
ExtractTables(env, pdf) ==
    IF ~env.pdfplumber \/ ~pdf.plumber_opens THEN Raised
    ELSE Returned(pdf.tables)

PdfTransaction(parser) == [raw_description |-> D_xyz, amount |-> 500,
                           transaction_date |-> 2, parser |-> parser]

ParseTinkoffPdf(env, pdf) ==
    LET tables == ExtractTables(env, pdf)
    IN  IF tables.raised THEN Raised
        ELSE Returned(IF tables.value = "tinkoff"
                      THEN <<PdfTransaction("tinkoff")>> ELSE <<>>)

ParseSberPdf(env, pdf) ==
    LET text == ExtractText(env, pdf)
    IN  IF text.raised THEN Raised
        ELSE Returned(IF text.value = "sber" THEN <<PdfTransaction("sber")>> ELSE <<>>)

ParseGenericPdf(env, pdf) ==
    LET text == ExtractText(env, pdf)
    IN  IF text.raised THEN Raised
        ELSE Returned(IF text.value \in {"sber", "generic"}
                      THEN <<PdfTransaction("generic")>> ELSE <<>>)

\* faulty variant: the Tinkoff attempt is not guarded
ParsePdfUnguarded(env, pdf, bank_hint) ==
    LET tinkoff == ParseTinkoffPdf(env, pdf)
        sber == ParseSberPdf(env, pdf)
    IN  IF bank_hint \notin {None, ""} /\ HintBank(bank_hint) = "sber"
        THEN [raised |-> sber.raised, value |-> sber.value, ran |-> <<"sber">>]
        ELSE [raised |-> tinkoff.raised, value |-> tinkoff.value, ran |-> <<"tinkoff">>]

\* PDFParser.parse: the outcome and the parsers that were run, in order
ParsePdf(env, pdf, bank_hint) ==
    LET tinkoff == ParseTinkoffPdf(env, pdf)
        sber == ParseSberPdf(env, pdf)
        generic == ParseGenericPdf(env, pdf)
        Outcome(r, ran) == [raised |-> r.raised, value |-> r.value, ran |-> ran]
    IN  IF bank_hint \notin {None, ""} /\ HintBank(bank_hint) = "tinkoff"
        THEN Outcome(tinkoff, <<"tinkoff">>)
        ELSE IF bank_hint \notin {None, ""} /\ HintBank(bank_hint) = "sber"
        THEN Outcome(sber, <<"sber">>)
        ELSE IF ~tinkoff.raised
        THEN Outcome(tinkoff, <<"tinkoff">>)
        ELSE IF ~sber.raised
        THEN Outcome(sber, <<"tinkoff", "sber">>)
        ELSE Outcome(generic, <<"tinkoff", "sber", "generic">>)

PdfParseCall(env, pdf, bank_hint) ==
    /\ last = Idle
    /\ last' = [op |-> "pdf_parse", env |-> env, pdf |-> pdf, bank_hint |-> bank_hint,
                result |-> ParsePdf(env, pdf, bank_hint)]
    /\ UNCHANGED <<patterns, transactions, categories, req, confirm, parsed, dialect>>

NextPdf ==
    \/ \E env \in Backends : \E pdf \in Pdfs : \E h \in BankHints :
          PdfParseCall(env, pdf, h)
    \/ Return

SpecPdf == Init /\ [][NextPdf]_vars

LastOf(s) == s[Len(s)]

\* C16: without a bank hint PDFParser.parse tries Tinkoff, Sber, generic in
\* that order, falling through when one fails, and an empty result is
\* returned only after the generic parser itself has run and returned empty.
C16_EmptyOnlyAfterGeneric ==
    (last.op = "pdf_parse" /\ last.bank_hint = None) =>
        /\ last.result.ran \in {<<"tinkoff">>, <<"tinkoff", "sber">>,
                                <<"tinkoff", "sber", "generic">>}
        /\ (~last.result.raised /\ last.result.value = <<>>) =>
              LastOf(last.result.ran) = "generic"

NamedBank(bank_hint) ==
    IF bank_hint \in {None, ""} THEN "other" ELSE HintBank(bank_hint)

CyrillicNames ==
    {"data operacii", "opisanie", "summa operacii", "kategoriya", "data",
     "summa", "prihod", "rashod", "Data operacii", "Opisanie", "SUMMA",
     "opisanie ", "Prihod"}

AsciiNames == {"date", "amount", "description", "amounts", "Amount", "x"}

ColumnNames ==
    {"data operacii", "opisanie", "summa operacii", "kategoriya", "data",
     "summa", "prihod", "rashod", "Data operacii", "Opisanie", "SUMMA"}

\* str.lower on a column name
ColumnLower(name) ==
    CASE name = "Data operacii" -> "data operacii"
      [] name = "Opisanie" -> "opisanie"
      [] name = "SUMMA" -> "summa"
      [] name = "Prihod" -> "prihod"
      [] name = "Amount" -> "amount"
      [] OTHER -> name

\* str.strip on a column name
ColumnStrip(name) ==
    CASE name = "opisanie " -> "opisanie"
      [] OTHER -> name

LowerColumns(columns) == {ColumnLower(c) : c \in columns}

Adapters == <<"TinkoffAdapter", "SberAdapter", "AlfaAdapter", "GenericAdapter">>

AdapterNames == {Adapters[i] : i \in 1..Len(Adapters)}

\* the column set each detect method tests for
RequiredColumns(adapter) ==
    CASE adapter = "TinkoffAdapter" ->
             {"data operacii", "opisanie", "summa operacii", "kategoriya"}
      [] adapter = "SberAdapter" -> {"data", "summa", "opisanie"}
      [] adapter = "AlfaAdapter" -> {"prihod", "rashod"}
      [] adapter = "GenericAdapter" -> {}

\* faulty variant: the column names are compared as they are written
DetectCaseSensitive(adapter, columns) ==
    /\ RequiredColumns(adapter) \subseteq columns
    /\ adapter = "SberAdapter" => "data operacii" \notin columns

\* <Adapter>.detect
Detect(adapter, columns) ==
    LET lowered == LowerColumns(columns)
    IN  CASE adapter = "TinkoffAdapter" ->
                 RequiredColumns("TinkoffAdapter") \subseteq lowered
          [] adapter = "SberAdapter" ->
                 /\ RequiredColumns("SberAdapter") \subseteq lowered
                 /\ "data operacii" \notin lowered
          [] adapter = "AlfaAdapter" ->
                 RequiredColumns("AlfaAdapter") \subseteq lowered
          [] adapter = "GenericAdapter" -> TRUE

RECURSIVE FirstDetecting(_, _, _)
FirstDetecting(order, columns, i) ==
    IF i > Len(order) THEN "GenericAdapter"
    ELSE IF Detect(order[i], columns) THEN order[i]
    ELSE FirstDetecting(order, columns, i + 1)

\* faulty variant: Alfa is asked before Sber
DetectAdapterAlfaFirst(columns) ==
    FirstDetecting(<<"TinkoffAdapter", "AlfaAdapter", "SberAdapter", "GenericAdapter">>,
                   columns, 1)

\* ImportService.detect_adapter
DetectAdapter(columns) == FirstDetecting(Adapters, columns, 1)

Encodings == <<"utf-8", "cp1251", "cp1252", "iso-8859-1">>

Separators == <<",", "tab", ";">>

EncodingNames == {Encodings[i] : i \in 1..Len(Encodings)}

SeparatorNames == {Separators[i] : i \in 1..Len(Separators)}

\* the header row of a file when a separator splits it
Headers ==
    { {"Data operacii", "opisanie ", "summa operacii", "kategoriya"},
      {"data", "SUMMA", "opisanie"},
      {"data", "Prihod", "rashod", "opisanie"},
      {"date", "Amount", "description"},
      {"date", "x"} }

\* the header row of a file when a separator does not split it
SingleHeaders == {"amount", "amounts", "summa"}

\* what pandas.read_csv does with a separator: it fails, or gives one column,
\* or splits the header
Shapes == {"error", "one", "many"}

\* A file: the encoding its non-ASCII text was written in (None for a file
\* of ASCII text only), the encodings under which its bytes decode, what
\* each separator makes of it, and its header.
Contents ==
    { c \in [written_in : EncodingNames \cup {None},
             decodes : SUBSET EncodingNames,
             shape : [SeparatorNames -> Shapes],
             header : Headers,
             single : SingleHeaders] :
        /\ "iso-8859-1" \in c.decodes
        /\ c.written_in # None => c.written_in \in c.decodes
        /\ c.written_in = None => c.decodes = EncodingNames
        /\ c.written_in \in {"cp1251", "cp1252", "iso-8859-1"} => "utf-8" \notin c.decodes
        /\ c.written_in = "utf-8" => "cp1252" \in c.decodes
        /\ c.shape[","] # "error" /\ c.shape["tab"] # "many" }

\* a column name as read under an encoding: text written in another
\* encoding comes out as different characters
Decoded(content, encoding, name) ==
    IF name \in AsciiNames \/ content.written_in \in {None, encoding}
    THEN name ELSE "garbled"

\* pd.read_csv(io.BytesIO(content), encoding=encoding, sep=sep)
ReadCsv(content, encoding, sep) ==
    IF encoding \notin content.decodes \/ content.shape[sep] = "error"
    THEN Raised
    ELSE LET names == IF content.shape[sep] = "many"
                      THEN content.header ELSE {content.single}
         IN  Returned([encoding |-> encoding, sep |-> sep,
                       ncols |-> Cardinality(names),
                       columns |-> {Decoded(content, encoding, n) : n \in names}])

NoTable == [encoding |-> None, sep |-> None, ncols |-> 0, columns |-> {}]

\* the loops of parse_csv over encodings and separators, from the i-th
\* combination on, df being the table of the last read that succeeded
RECURSIVE TryCombinations(_, _, _)
TryCombinations(content, i, df) ==
    IF i > Len(Encodings) * Len(Separators) THEN df
    ELSE LET encoding == Encodings[((i - 1) \div Len(Separators)) + 1]
             sep == Separators[((i - 1) % Len(Separators)) + 1]
             read == ReadCsv(content, encoding, sep)
         IN  IF read.raised THEN TryCombinations(content, i + 1, df)
             ELSE IF read.value.ncols > 1 THEN read.value
             ELSE TryCombinations(content, i + 1, read.value)

\* faulty variant: the first read that succeeds is kept
SelectTableFirstRead(content) ==
    LET reads == {i \in 1..(Len(Encodings) * Len(Separators)) :
                     ~ReadCsv(content, Encodings[((i - 1) \div Len(Separators)) + 1],
                              Separators[((i - 1) % Len(Separators)) + 1]).raised}
        first == CHOOSE i \in reads : \A j \in reads : i <= j
    IN  IF reads = {} THEN NoTable
        ELSE ReadCsv(content, Encodings[((first - 1) \div Len(Separators)) + 1],
                     Separators[((first - 1) % Len(Separators)) + 1]).value

\* the table parse_csv goes on with
SelectTable(content) == TryCombinations(content, 1, NoTable)

AMOUNT_PATTERNS == {"amount", "summa", "sum", "summa operacii", "summa platezha"}

DESC_PATTERNS ==
    {"description", "opisanie", "naznachenie", "details", "naznachenie platezha"}

\* the pairs (pattern, column) of the names above with fuzz.ratio over 80
FuzzyOver80 == {<<"amount", "amounts">>}

\* GenericAdapter._find_column finds a column
FindColumn(columns, candidates) ==
    \E p \in candidates : \E c \in columns : c = p \/ <<p, c>> \in FuzzyOver80

\* <Adapter>.parse: the generic adapter needs an amount and a description
\* column
AdapterParse(adapter, columns) ==
    IF adapter = "GenericAdapter"
       /\ ~(FindColumn(columns, AMOUNT_PATTERNS) /\ FindColumn(columns, DESC_PATTERNS))
    THEN [raised |-> TRUE, error |-> "Could not identify required columns"]
    ELSE [raised |-> FALSE, error |-> None]

\* ImportService.parse_csv
ParseCsv(content) ==
    LET df == SelectTable(content)
    IN  IF df = NoTable
        THEN [raised |-> TRUE, error |-> "Could not decode CSV file",
              table |-> NoTable, adapter |-> None]
        ELSE LET columns == {ColumnLower(ColumnStrip(c)) : c \in df.columns}
                 adapter == DetectAdapter(columns)
                 parse == AdapterParse(adapter, columns)
             IN  [raised |-> parse.raised, error |-> parse.error,
                  table |-> df, adapter |-> adapter]

DetectAdapterCall(columns) ==
    /\ last = Idle
    /\ last' = [op |-> "detect_adapter", columns |-> columns,
                detect |-> [a \in AdapterNames |-> Detect(a, columns)],
                adapter |-> DetectAdapter(columns)]
    /\ UNCHANGED <<patterns, transactions, categories, req, confirm, parsed, dialect>>

ParseCsvCall(content) ==
    /\ last = Idle
    /\ last' = [op |-> "parse_csv", content |-> content, result |-> ParseCsv(content)]
    /\ UNCHANGED <<patterns, transactions, categories, req, confirm, parsed, dialect>>

NextCsv ==
    \/ \E columns \in SUBSET ColumnNames : DetectAdapterCall(columns)
    \/ \E content \in Contents : ParseCsvCall(content)
    \/ Return

SpecCsv == Init /\ [][NextCsv]_vars

\* C18: detect_adapter always returns an adapter, and it is the first of
\* Tinkoff, Sber, Alfa, Generic whose detect is true for the table's columns;
\* Generic is returned exactly when none of the three bank adapters detects
\* the table.
C18_FirstDetectingAdapter ==
    last.op = "detect_adapter" =>
        /\ last.adapter \in AdapterNames
        /\ \E i \in 1..Len(Adapters) :
              /\ Adapters[i] = last.adapter
              /\ last.detect[Adapters[i]]
              /\ \A j \in 1..(i - 1) : ~last.detect[Adapters[j]]
        /\ last.adapter = "GenericAdapter" <=>
              \A a \in AdapterNames \ {"GenericAdapter"} : ~last.detect[a]

\* a table that both the Sber and the Alfa adapter detect goes to Sber
C18_Witness ==
    /\ last.op = "detect_adapter"
    /\ last.detect["SberAdapter"] /\ last.detect["AlfaAdapter"]
    /\ last.adapter = "SberAdapter"

\* C19 as stated: every adapter's detect is true exactly when all of its
\* required columns are among the column names compared case-insensitively.
C19_Original ==
    last.op = "detect_adapter" =>
        \A a \in AdapterNames :
            last.detect[a] <=> (RequiredColumns(a) \subseteq LowerColumns(last.columns))

\* C19 amended: detect is a function of the lower-cased column-name set; for
\* Tinkoff, Alfa and Generic it is true exactly when all required columns are
\* present; for Sber it is true exactly when all required columns are present
\* and the Tinkoff date column is absent.
C19_DetectByColumns ==
    last.op = "detect_adapter" =>
        \A a \in AdapterNames :
            last.detect[a] <=>
                /\ RequiredColumns(a) \subseteq LowerColumns(last.columns)
                /\ a = "SberAdapter" => "data operacii" \notin LowerColumns(last.columns)

\* all Sber columns are present, one of them in upper case, next to the
\* Tinkoff date column in mixed case: Sber does not detect the table
C19_Witness ==
    /\ last.op = "detect_adapter"
    /\ {"data", "SUMMA", "opisanie", "Data operacii"} \subseteq last.columns
    /\ "summa" \notin last.columns /\ "data operacii" \notin last.columns
    /\ ~last.detect["SberAdapter"]

CombinationIndex(encoding, sep) ==
    CHOOSE i \in 1..(Len(Encodings) * Len(Separators)) :
        /\ Encodings[((i - 1) \div Len(Separators)) + 1] = encoding
        /\ Separators[((i - 1) % Len(Separators)) + 1] = sep

Yields(content, encoding, sep) ==
    LET read == ReadCsv(content, encoding, sep)
    IN  ~read.raised /\ read.value.ncols > 1

C20_WitnessOneColumn ==
    /\ last.op = "parse_csv"
    /\ \A s \in SeparatorNames : last.content.shape[s] # "many"
    /\ last.content.single = "amounts"
    /\ last.result.raised
    /\ last.result.table # NoTable

(***************************************************************************)
(* Row parsing: the parse methods of the bank adapters and the amount      *)
(* handling of the PDF parsers.  A Decimal is a record: a number of        *)
(* hundredths, or NaN.  A string is a sequence of tokens (a sign, a space, *)
(* a run of digits, a word).  A cell of a data frame is a missing value    *)
(* (float NaN), a number, or a string.  Only the fields amount, type and   *)
(* mcc_code of a ParsedTransaction are kept.                               *)
(***************************************************************************)

MaxRows == 1

Dec(v) == [nan |-> FALSE, v |-> v]

DecNaN == [nan |-> TRUE, v |-> 0]

Invalid == [raised |-> TRUE, value |-> Dec(0)]

NaNCell == [kind |-> "nan", num |-> 0, text |-> <<>>]

Num(v) == [kind |-> "num", num |-> v, text |-> <<>>]

Str(t) == [kind |-> "str", num |-> 0, text |-> t]

\* the digit runs of the model and the hundredths they stand for
DigitValue(token) ==
    CASE token = "0" -> 0
      [] token = "500.00" -> 50000
      [] token = "1500.00" -> 150000

IsDigits(token) == token \in {"0", "500.00", "1500.00"}

DigitsOf(v) ==
    CASE v = 0 -> "0"
      [] v = 50000 -> "500.00"
      [] v = 150000 -> "1500.00"

\* str(value) of a cell
StrOf(cell) ==
    CASE cell.kind = "nan" -> <<"nan">>
      [] cell.kind = "num" ->
             IF cell.num < 0 THEN <<"-", DigitsOf(0 - cell.num)>>
             ELSE <<DigitsOf(cell.num)>>
      [] cell.kind = "str" -> cell.text

\* Decimal(text)
DecimalOf(text) ==
    CASE Len(text) = 1 /\ IsDigits(text[1]) -> Returned(Dec(DigitValue(text[1])))
      [] Len(text) = 1 /\ text[1] = "nan" -> Returned(DecNaN)
      [] Len(text) = 2 /\ text[1] = "+" /\ IsDigits(text[2]) ->
             Returned(Dec(DigitValue(text[2])))
      [] Len(text) = 2 /\ text[1] = "-" /\ IsDigits(text[2]) ->
             Returned(Dec(0 - DigitValue(text[2])))
      [] OTHER -> Invalid

\* .replace(" ", "").replace(",", ".").replace("\xa0", "")
CleanAmount(text) ==
    LET kept == SelectSeq(text, LAMBDA t : t # " ")
    IN  [i \in 1..Len(kept) |-> IF kept[i] = "500,00" THEN "500.00" ELSE kept[i]]

\* BaseBankAdapter._normalize_amount
NormalizeAmount(cell) ==
    CASE cell.kind = "nan" -> Dec(0)
      [] cell.kind = "num" -> Dec(cell.num)
      [] cell.kind = "str" ->
             LET d == DecimalOf(CleanAmount(cell.text))
             IN  IF d.raised THEN Dec(0) ELSE d.value

Tail1(text) == IF text = <<>> THEN <<>> ELSE Tail(text)

RowSeqs(S) == UNION {[1..n -> S] : n \in 0..MaxRows}

\* the transactions of the rows in order, unless a row raised
RECURSIVE Collect(_, _)
Collect(perRow, i) ==
    IF i > Len(perRow) THEN Returned(<<>>)
    ELSE IF perRow[i].raised THEN Raised
    ELSE LET rest == Collect(perRow, i + 1)
         IN  IF rest.raised THEN Raised
             ELSE Returned(perRow[i].value \o rest.value)

Emitted(amount, type, mcc) ==
    Returned(<<[amount |-> amount, type |-> type, mcc_code |-> mcc]>>)

Skipped == Returned(<<>>)

\* str.lower of a status
StatusLower(status) ==
    CASE status = "FAILED" -> "failed"
      [] status = "OK" -> "ok"
      [] OTHER -> status

\* the MCC cells: missing, the number 5411.0, the string "abc"
MccCells == {NaNCell, Num(5411), Str(<<"abc">>)}

\* str(int(float(mcc_raw))).strip()[:4]
MccOf(cell) ==
    CASE cell.kind = "nan" -> Returned(None)
      [] cell.kind = "num" -> Returned("5411")
      [] cell.kind = "str" -> [raised |-> TRUE, value |-> None]

\* TinkoffAdapter.parse, one row ("otmenen" stands for the Cyrillic status)
TinkoffRow(row) ==
    IF StatusLower(row.status) \in {"failed", "otmenen", "declined"} THEN Skipped
    ELSE LET raw == NormalizeAmount(row.amount)
             amount == IF raw = Dec(0) THEN NormalizeAmount(row.payment) ELSE raw
             mcc == MccOf(row.mcc)
         IN  IF mcc.raised THEN Raised
             ELSE IF amount.v > 0 THEN Emitted(amount, "income", mcc.value)
             ELSE Emitted(Dec(Abs(amount.v)), "expense", mcc.value)

TinkoffParse(df) == Collect([i \in 1..Len(df) |-> TinkoffRow(df[i])], 1)

\* any(x in tx_type_col for x in (...)) on the lower-cased type column
SberTypeIsIncome(type_col) == type_col \in {"dohod", "zachislenie na kartu"}

\* SberAdapter.parse, one row
SberRow(row) ==
    LET amount_str == CleanAmount(StrOf(row.amount))
    IN  IF amount_str # <<>> /\ amount_str[1] = "-"
        THEN Emitted(NormalizeAmount(Str(Tail1(amount_str))), "expense", None)
        ELSE IF amount_str # <<>> /\ amount_str[1] = "+"
        THEN Emitted(NormalizeAmount(Str(Tail1(amount_str))), "income", None)
        ELSE Emitted(NormalizeAmount(Str(amount_str)),
                     IF SberTypeIsIncome(row.type_col) THEN "income" ELSE "expense",
                     None)

SberParse(df) == Collect([i \in 1..Len(df) |-> SberRow(df[i])], 1)

\* AlfaAdapter.parse, one row
AlfaRow(row) ==
    LET income == NormalizeAmount(row.income)
        expense == NormalizeAmount(row.expense)
    IN  IF income.v > 0 THEN Emitted(income, "income", None)
        ELSE IF expense.v > 0 THEN Emitted(expense, "expense", None)
        ELSE Skipped

AlfaParse(df) == Collect([i \in 1..Len(df) |-> AlfaRow(df[i])], 1)

\* any(x in type_val for x in [...]) on the value of the type column
GenericTypeIsIncome(type_val) == type_val \in {"dohod", "income"}

\* GenericAdapter.parse, one row; type_val is None without a type column
GenericRow(row) ==
    LET amount == NormalizeAmount(row.amount)
    IN  IF amount.v < 0 THEN Emitted(Dec(Abs(amount.v)), "expense", None)
        ELSE Emitted(amount,
                     IF row.type_val # None /\ GenericTypeIsIncome(row.type_val)
                     THEN "income" ELSE "expense",
                     None)

GenericParseRows(df) == Collect([i \in 1..Len(df) |-> GenericRow(df[i])], 1)

\* strip, re.sub(r'\s+', ''), replace(',', '.'), re.sub(r'[$...]', '')
CleanPdfAmount(text) ==
    LET kept == SelectSeq(text, LAMBDA t : t \notin {" ", "$"})
    IN  [i \in 1..Len(kept) |-> IF kept[i] = "500,00" THEN "500.00" ELSE kept[i]]

\* str.lstrip('+-')
RECURSIVE LStripSigns(_)
LStripSigns(text) ==
    IF text # <<>> /\ text[1] \in {"+", "-"} THEN LStripSigns(Tail(text)) ELSE text

\* PDFParser._parse_amount: a Decimal, or None (raised) when it cannot be read
PdfParseAmount(text) ==
    IF text = <<>> THEN Invalid
    ELSE LET cleaned == CleanPdfAmount(text)
             is_negative == cleaned # <<>> /\ cleaned[1] = "-"
             amount == DecimalOf(LStripSigns(cleaned))
         IN  IF amount.raised \/ amount.value.nan THEN amount
             ELSE IF is_negative THEN Returned(Dec(0 - amount.value.v))
             ELSE amount

\* the amount and type of a transaction of parse_tinkoff_pdf, parse_sber_pdf
\* and parse_generic_pdf
PdfRow(text) ==
    LET amount == PdfParseAmount(text)
    IN  IF amount.raised \/ (~amount.value.nan /\ amount.value.v = 0) THEN Skipped
        ELSE IF ~amount.value.nan /\ amount.value.v < 0
        THEN Emitted(Dec(Abs(amount.value.v)), "expense", None)
        ELSE Emitted(amount.value, "income", None)

Statuses == {"OK", "FAILED", "otmenen", "declined"}

AmountTexts ==
    { <<"-", "500,00">>, <<"+", "500.00">>, <<"500.00">>, <<"+", "-", "500.00">>,
      <<"-", " ", "1500.00">>, <<"abc">> }

AmountCells == {NaNCell, Num(0), Num(50000), Num(0 - 50000)} \cup {Str(t) : t \in AmountTexts}

PaymentCells == {NaNCell, Num(0), Num(0 - 150000)}

TinkoffRows ==
    [status : Statuses, amount : {NaNCell, Num(0), Num(50000), Num(0 - 50000),
                                  Str(<<"-", "500,00">>), Str(<<"abc">>)},
     payment : PaymentCells, mcc : MccCells]

SberRows == [amount : AmountCells, type_col : {"", "dohod", "pokupka"}]

AlfaCells == {NaNCell, Num(0), Num(150000), Num(0 - 150000), Str(<<"500,00">>)}

AlfaRows == [income : AlfaCells, expense : AlfaCells]

GenericRows == [amount : AmountCells, type_val : {None, "income", "rashod"}]

PdfTexts == AmountTexts \cup {<<>>, <<"0">>, <<"-", "-", "500.00">>, <<"500.00", "$">>}

TinkoffParseCall ==
    /\ last = Idle
    /\ \E df \in RowSeqs(TinkoffRows) :
          last' = [op |-> "TinkoffAdapter.parse", input |-> df, result |-> TinkoffParse(df)]
    /\ UNCHANGED <<patterns, transactions, categories, req, confirm, parsed, dialect>>

SberParseCall ==
    /\ last = Idle
    /\ \E df \in RowSeqs(SberRows) :
          last' = [op |-> "SberAdapter.parse", input |-> df, result |-> SberParse(df)]
    /\ UNCHANGED <<patterns, transactions, categories, req, confirm, parsed, dialect>>

AlfaParseCall ==
    /\ last = Idle
    /\ \E df \in RowSeqs(AlfaRows) :
          last' = [op |-> "AlfaAdapter.parse", input |-> df, result |-> AlfaParse(df)]
    /\ UNCHANGED <<patterns, transactions, categories, req, confirm, parsed, dialect>>

GenericParseCall ==
    /\ last = Idle
    /\ \E df \in RowSeqs(GenericRows) :
          last' = [op |-> "GenericAdapter.parse", input |-> df, result |-> GenericParseRows(df)]
    /\ UNCHANGED <<patterns, transactions, categories, req, confirm, parsed, dialect>>

PdfRowCall ==
    /\ last = Idle
    /\ \E text \in PdfTexts :
          last' = [op |-> "PDFParser", input |-> <<text>>, result |-> PdfRow(text)]
    /\ UNCHANGED <<patterns, transactions, categories, req, confirm, parsed, dialect>>

NextRows ==
    \/ TinkoffParseCall
    \/ SberParseCall
    \/ AlfaParseCall
    \/ GenericParseCall
    \/ PdfRowCall
    \/ Return

SpecRows == Init /\ [][NextRows]_vars

RowOps ==
    {"TinkoffAdapter.parse", "SberAdapter.parse", "AlfaAdapter.parse",
     "GenericAdapter.parse", "PDFParser"}

\* a row of an Alfa statement with a non-zero income or expense value
NonZeroAlfa(row) ==
    NormalizeAmount(row.income).v # 0 \/ NormalizeAmount(row.expense).v # 0

\* C21: AlfaAdapter.parse emits exactly one transaction for every row whose
\* income or expense value is non-zero, with amount and direction of the
\* non-zero column, and nothing for a row in which both are zero.
C21_OnePerNonZeroRow ==
    last.op = "AlfaAdapter.parse" =>
        /\ ~last.result.raised
        /\ Len(last.result.value) =
               Cardinality({i \in 1..Len(last.input) : NonZeroAlfa(last.input[i])})
        /\ \A i \in 1..Len(last.input) :
              (Len(last.input) = 1 /\ NonZeroAlfa(last.input[i])) =>
                  LET income == NormalizeAmount(last.input[i].income)
                      expense == NormalizeAmount(last.input[i].expense)
                      tx == last.result.value[1]
                  IN  \/ income.v # 0 /\ tx.type = "income" /\ tx.amount = Dec(Abs(income.v))
                      \/ expense.v # 0 /\ tx.type = "expense" /\ tx.amount = Dec(Abs(expense.v))

\* C24: every transaction emitted by a CSV adapter or a PDF parser has a
\* non-negative amount, whatever the source value.
C24_AmountNonNegative ==
    (last.op \in RowOps /\ ~last.result.raised) =>
        \A i \in 1..Len(last.result.value) :
            /\ ~last.result.value[i].amount.nan
            /\ last.result.value[i].amount.v >= 0

TinkoffSkips(row) == StatusLower(row.status) \in {"failed", "otmenen", "declined"}

TinkoffAmount(row) ==
    IF NormalizeAmount(row.amount).v = 0 THEN NormalizeAmount(row.payment).v
    ELSE NormalizeAmount(row.amount).v

\* C25: TinkoffAdapter.parse emits nothing for a row whose status is failed,
\* declined or cancelled and exactly one transaction for every other row;
\* the amount is the operation amount, or the payment amount when the
\* operation amount is zero; a positive amount gives income, a negative one
\* expense with the absolute value.
C25_OnePerCompletedRow ==
    last.op = "TinkoffAdapter.parse" =>
        /\ ~last.result.raised
        /\ Len(last.result.value) =
               Cardinality({i \in 1..Len(last.input) : ~TinkoffSkips(last.input[i])})
        /\ (Len(last.input) = 1 /\ ~TinkoffSkips(last.input[1])) =>
               LET a == TinkoffAmount(last.input[1])
                   tx == last.result.value[1]
               IN  /\ tx.amount = Dec(Abs(a))
                   /\ a > 0 => tx.type = "income"
                   /\ a < 0 => tx.type = "expense"

(***************************************************************************)
(* Category store: sequences of CategoryService.get_or_create calls.       *)
(***************************************************************************)

MaxCategories == 3

CategoryNames == {"Food", "food", "Food ", "food ", "Fun"}

GetOrCreateCall(name, user_id) ==
    /\ last = Idle
    /\ Len(categories) < MaxCategories
    /\ LET r == GetOrCreateOn(categories, name, user_id)
       IN  /\ categories' = r.categories
           /\ last' = [op |-> "get_or_create", name |-> name, user_id |-> user_id,
                       before |-> categories, raised |-> r.raised, id |-> r.id]
    /\ UNCHANGED <<patterns, transactions, req, confirm, parsed, dialect>>

NextCategory ==
    \/ \E name \in CategoryNames : \E user_id \in Users : GetOrCreateCall(name, user_id)
    \/ Return

SpecCategory == Init /\ [][NextCategory]_vars

SameNameIgnoringCase(a, b) == NameLower(NameStrip(a)) = NameLower(NameStrip(b))

\* C22: get_or_create(name, user) returns a category of that user whose name
\* is the requested name ignoring case (and surrounding blanks) and creates
\* a row only when the user has none; no user ever has two categories whose
\* names are equal ignoring case.
C22_OneCategoryPerName ==
    /\ \A i, j \in 1..Len(categories) :
          (categories[i].user_id = categories[j].user_id
           /\ SameNameIgnoringCase(categories[i].name, categories[j].name)) => i = j
    /\ last.op = "get_or_create" =>
          /\ ~last.raised
          /\ last.id \in 1..Len(categories)
          /\ categories[last.id].user_id = last.user_id
          /\ SameNameIgnoringCase(categories[last.id].name, last.name)
          /\ categories # last.before =>
                ~\E i \in 1..Len(last.before) :
                    /\ last.before[i].user_id = last.user_id
                    /\ SameNameIgnoringCase(last.before[i].name, last.name)

\* the three tests of the user-pattern step, as the claim states them
PassesExact(r, raw_description) ==
    r.normalized_pattern = NormalizeText(raw_description)

PassesFuzzy(r, raw_description) ==
    \/ Ratio(LowerStr(r.raw_description), LowerStr(raw_description)) >= 85
    \/ PartialRatio(r.normalized_pattern, NormalizeText(raw_description)) >= 90

UserRows(user_id) == {r \in DOMAIN patterns : r.user_id = user_id}

\* C23: the user-pattern step returns the suggestion of the first pattern, in
\* descending usage_count order, that passes one of the three tests (exact,
\* ratio >= 85, partial ratio >= 90), and nothing when no pattern passes; no
\* pattern with a higher usage_count than the returned one passes a test.
C23_FirstMatchScan ==
    (last.op = "categorize" /\ ~IsBlank(last.raw_description)) =>
        LET d == last.raw_description
            passing == {r \in UserRows(last.user_id) : PassesExact(r, d) \/ PassesFuzzy(r, d)}
        IN  /\ last.suggestion.found <=> passing # {}
            /\ last.suggestion.found =>
                  \E r \in passing :
                      /\ last.suggestion = PatternTest(r, d)
                      /\ \A q \in passing : q.usage_count <= r.usage_count

\* a pattern used more often that only fuzzy-matches is returned although a
\* pattern used less often matches exactly
C23_Witness ==
    /\ last.op = "categorize"
    /\ ~IsBlank(last.raw_description)
    /\ \E q, r \in UserRows(last.user_id) :
          /\ q.usage_count > r.usage_count
          /\ PassesExact(r, last.raw_description)
          /\ ~PassesExact(q, last.raw_description)
          /\ PassesFuzzy(q, last.raw_description)
          /\ q.category_name # r.category_name
          /\ last.suggestion.found
          /\ last.suggestion.source = "fuzzy"
          /\ last.suggestion.category = q.category_name

\* C29: every suggestion of the user-pattern step has score >= 0.85; an
\* exact match scores min(0.95 + 0.01 * usage_count, 0.99), within
\* [0.96, 0.99], and makes categorize return it as "high"; a fuzzy match
\* scores at least 0.85.  So categorize never falls to the default when the
\* step gave a suggestion, and the suggestion it returns as "medium" at
\* step 5 has a score in [0.85, 0.90).
C29_PatternScores ==
    (last.op = "categorize" /\ ~IsBlank(last.raw_description) /\ last.suggestion.found) =>
        LET s == last.suggestion
        IN  /\ s.score >= 85
            /\ s.score >= 70
            /\ s.source \in {"pattern", "fuzzy"}
            /\ s.source = "pattern" =>
                  /\ s.score \in 96..99
                  /\ \E r \in UserRows(last.user_id) :
                        s.score = Min(95 + r.usage_count, 99)
                  /\ last.result = Result(s.category, "high", s.score)
            /\ last.result.confidence # "low"
            /\ last.result = Result(s.category, "medium", s.score) => s.score \in 85..89

\* a fuzzy suggestion below 0.90 that no later layer overrides comes back
\* as "medium" at step 5
C29_Witness ==
    /\ last.op = "categorize"
    /\ ~IsBlank(last.raw_description)
    /\ last.suggestion.found
    /\ last.suggestion.source = "fuzzy"
    /\ last.suggestion.score \in 85..89
    /\ ~MccMapped(last.mcc_code, last.language)
    /\ last.result = Result(last.suggestion.category, "medium", last.suggestion.score)

\* C30: categorize called with an empty or whitespace-only description
\* returns the default label of the language ("Other" for "en", the Russian
\* label otherwise) with confidence "low" and score 0.0, whatever the MCC
\* table and the user's patterns hold.
C30_BlankGivesDefault ==
    (last.op = "categorize" /\ last.raw_description \in {D_empty, D_blank}) =>
        last.result = [category |-> IF last.language = "en" THEN "Other" ELSE "Drugoe",
                       confidence |-> "low", score |-> 0]

\* a blank description, an MCC code of the table and a stored pattern whose
\* key is the blank description: the default is returned all the same
C30_Witness ==
    /\ last.op = "categorize"
    /\ last.raw_description \in {D_empty, D_blank}
    /\ MccMapped(last.mcc_code, last.language)
    /\ last.suggestion.found
    /\ last.result.confidence = "low"

\* the stored transactions that confirm_import wrote for the user with the
\* raw description, amount and date of the parsed transaction tx
StoredSame(user_id, tx) ==
    {i \in 1..Len(transactions) :
        /\ transactions[i].source = "import_csv"
        /\ transactions[i].user_id = user_id
        /\ transactions[i].raw_description = tx.raw_description
        /\ transactions[i].amount = tx.amount
        /\ tx.transaction_date # NoDate =>
              transactions[i].transaction_date = tx.transaction_date}

\* C26: once confirm_import has stored a transaction with raw description d,
\* amount a and date t for a user, a preview that parses a transaction with
\* the same d, a and t for that user marks it is_duplicate with
\* duplicate_count >= 1.
C26_ReimportFlagged ==
    last.op = "check_duplicates" =>
        \A i \in 1..Len(last.before) :
            StoredSame(last.user_id, last.before[i]) # {} =>
                /\ last.transactions[i].is_duplicate
                /\ last.transactions[i].duplicate_count >= 1
                /\ last.transactions[i].duplicate_count >=
                       Cardinality(StoredSame(last.user_id, last.before[i]))

\* a statement line with a backslash in its description, imported and then
\* previewed again on PostgreSQL, is flagged
C26_Witness ==
    /\ last.op = "check_duplicates"
    /\ dialect = "postgresql"
    /\ \E i \in 1..Len(last.before) :
          /\ StoredSame(last.user_id, last.before[i]) # {}
          /\ last.before[i].raw_description = S_wxy
          /\ last.before[i].transaction_date # NoDate
          /\ last.transactions[i].is_duplicate

(***************************************************************************)
(* Two users: both learn patterns, import transactions, categorize and     *)
(* look for duplicates.                                                    *)
(***************************************************************************)

IsolationLearnInputs == { <<1, D_xy, "Food">>, <<2, D_xy, "Fun">>, <<2, D_xyz, "Fun">> }

IsolationHistoryInputs == { <<1, D_xyz, "Bills">>, <<2, D_xy, "Food">> }

NextIsolation ==
    \/ \E i \in IsolationLearnInputs : LearnPattern(i[1], i[2], i[3], NoId)
    \/ \E i \in IsolationHistoryInputs : ImportOne(i[1], i[2], i[3])
    \/ \E u \in Users : \E d \in {D_xy, D_xyz} : CategorizeCall(u, d, None, "en")
    \/ \E u \in Users : \E d \in {D_xy, D_xyz} : \E t \in {NoDate, 2} :
          FindDuplicatesCall(u, d, 500, t)
    \/ Return

SpecIsolation == Init /\ [][NextIsolation]_vars

\* the store with the rows of every other user taken away
OwnPatterns(user_id) == [r \in UserRows(user_id) |-> patterns[r]]

OwnTransactions(user_id) == SelectSeq(transactions, LAMBDA t : t.user_id = user_id)

RowsAt(txs, indices) == {txs[i] : i \in indices}

\* C27: what categorize and find_duplicates return for a user is what they
\* return on the store holding that user's patterns and transactions only;
\* the patterns and transactions of another user, however learned or
\* confirmed, change nothing.
C27_UserIsolation ==
    /\ last.op = "categorize" =>
          last.result \in
              { Categorize(rows, OwnTransactions(last.user_id), last.user_id,
                           last.raw_description, last.mcc_code, last.language) :
                  rows \in UserPatternOrders(OwnPatterns(last.user_id), last.user_id) }
    /\ last.op = "find_duplicates" =>
          RowsAt(transactions, last.result) =
              RowsAt(OwnTransactions(last.user_id),
                     FindDuplicates(OwnTransactions(last.user_id), dialect, last.user_id,
                                    last.description, last.amount, last.transaction_date))

\* user 1 categorizes a description for which user 2 has learned another
\* category and imported a transaction, and gets nothing of it
C27_Witness ==
    /\ last.op = "categorize"
    /\ last.user_id = 1
    /\ \E r \in UserRows(2) :
          /\ PassesExact(r, last.raw_description)
          /\ r.category_name # last.result.category
    /\ \E i \in 1..Len(transactions) :
          /\ transactions[i].user_id = 2
          /\ transactions[i].raw_description = last.raw_description
    /\ UserRows(1) # {}
    /\ last.result.confidence = "high"

(***************************************************************************)
(* The preview path next to the operations that write: learn_pattern and   *)
(* confirm_import fill the stores; categorize, categorize_transactions,    *)
(* find_duplicates and check_duplicates are run on them.                   *)
(***************************************************************************)

NextPreview ==
    \/ LearnPattern(1, D_xy, "Food", NoId)
    \/ ImportOne(1, S_wxy, "Bills")
    \/ \E txs \in {l \in ParsedLists : Len(l) = 1} : ParseFile(txs)
    \/ CategorizeTransactions(1, "en")
    \/ PreviewReturn
    \/ \E d \in {D_xy, D_xyz} : \E m \in {None, "5411"} : CategorizeCall(1, d, m, "en")
    \/ \E t \in {NoDate, 2} : FindDuplicatesCall(1, S_wxy, 500, t)
    \/ \E txs \in {l \in CheckInputs : Len(l) = 1} : CheckDuplicates(txs, 1)
    \/ (last.op # "categorize_transactions" /\ Return)

SpecPreview == Init /\ [][NextPreview]_vars

PreviewOps == {"categorize", "categorize_transactions", "find_duplicates", "check_duplicates"}

\* C28: categorize, categorize_transactions, find_duplicates and
\* check_duplicates leave the pattern store, the transaction store and the
\* category store as they were; no usage_count changes except in a step of
\* learn_pattern.
C28_PreviewReadOnly ==
    [][ /\ (last.op = "none" /\ last'.op \in PreviewOps) =>
              (patterns' = patterns /\ transactions' = transactions
               /\ categories' = categories)
        /\ patterns' # patterns => last'.op = "learn_pattern" ]_vars

\* a pattern learned once has matched exactly in categorize and its
\* usage_count is still 1
C28_Witness ==
    /\ last.op = "categorize"
    /\ last.suggestion.found
    /\ last.suggestion.source = "pattern"
    /\ last.suggestion.score = 96
    /\ \E r \in UserRows(1) : PassesExact(r, last.raw_description) /\ r.usage_count = 1
    /\ transactions # <<>>

====
